---- MODULE Spec2Model ----
(***************************************************************************)
(* addr-hal: IPv4 / IPv6 addresses, the IpAddr and SocketAddr unions and   *)
(* their textual rendering, over the array-backed backend of addr-mock.    *)
(*                                                                         *)
(* Arrays are 1-based tuples: the source's octets()[i] is octets[i+1].     *)
(* Text is a sequence of one-character strings.                            *)
(***************************************************************************)
EXTENDS Integers, Sequences, FiniteSets, TLC

VARIABLES sock, input, call

vars == <<sock, input, call>>

\* ------------------------------------------------------------------ bounds

\* Octets 0..MaxOctet are drawn besides the range boundaries of the predicates.
MaxOctet == 2

\* Segments 0..MaxSeg are drawn besides the special segment values.
MaxSeg == 1

\* Ports 0..MaxPort are drawn besides 8080 and 65535.
MaxPort == 1

\* flowinfo and scope_id are drawn from 0..MaxFlow.
MaxFlow == 1

\* ------------------------------------------------------- integer helpers

None == [tag |-> "None"]

Some(v) == [tag |-> "Some", val |-> v]

RECURSIVE BitAnd(_, _)
\* The & operator on unsigned integers.
BitAnd(a, b) ==
    IF a = 0 \/ b = 0 THEN 0
    ELSE (a % 2) * (b % 2) + 2 * BitAnd(a \div 2, b \div 2)

\* `v as u8`: truncation to the low eight bits.
AsU8(v) == v % 256

\* `v >> 8` on a u16.
Shr8(v) == v \div 256

DigitChars ==
    <<"0", "1", "2", "3", "4", "5", "6", "7", "8", "9", "a", "b", "c", "d", "e", "f">>

RECURSIVE FmtDec(_)
\* The "{}" format of an unsigned integer: decimal, no leading zeros.
FmtDec(n) ==
    IF n < 10 THEN <<DigitChars[n + 1]>>
    ELSE FmtDec(n \div 10) \o <<DigitChars[(n % 10) + 1]>>

RECURSIVE FmtHex(_)
\* The "{:x}" format of an unsigned integer: lowercase hex, no leading zeros.
FmtHex(n) ==
    IF n < 16 THEN <<DigitChars[n + 1]>>
    ELSE FmtHex(n \div 16) \o <<DigitChars[(n % 16) + 1]>>

\* Ordering of two integers (Ord::cmp on a primitive).
CmpInt(a, b) == IF a < b THEN "Less" ELSE IF a > b THEN "Greater" ELSE "Equal"

RECURSIVE CmpArrayFrom(_, _, _)
\* Ord::cmp on arrays of equal length: lexicographic from index i.
CmpArrayFrom(s, t, i) ==
    IF i > Len(s) THEN "Equal"
    ELSE IF s[i] # t[i] THEN CmpInt(s[i], t[i])
    ELSE CmpArrayFrom(s, t, i + 1)

CmpArray(s, t) == CmpArrayFrom(s, t, 1)

\* Integers wider than 16 bits (u32, u128) are written in base 65536, most
\* significant digit first: a u32 is <<hi, lo>> and stands for hi * 2^16 + lo,
\* a u128 is eight such digits.

\* u16::to_be_bytes
U16_to_be_bytes(v) == <<v \div 256, v % 256>>

\* u16::from_be_bytes
U16_from_be_bytes(b) == b[1] * 256 + b[2]

\* u32::to_be_bytes
U32_to_be_bytes(n) == U16_to_be_bytes(n[1]) \o U16_to_be_bytes(n[2])

\* u32::from_be_bytes
U32_from_be_bytes(b) ==
    <<U16_from_be_bytes(<<b[1], b[2]>>), U16_from_be_bytes(<<b[3], b[4]>>)>>

\* u128::to_be_bytes
U128_to_be_bytes(n) ==
    [k \in 1..16 |-> IF k % 2 = 1 THEN n[(k + 1) \div 2] \div 256
                     ELSE n[k \div 2] % 256]

\* u128::from_be_bytes
U128_from_be_bytes(b) ==
    [i \in 1..8 |-> U16_from_be_bytes(<<b[2 * i - 1], b[2 * i]>>)]

\* ---------------------------------------------- addr-mock: Ipv4AddrInner

Ipv4AddrInner_new(a, b, c, d) == [inner |-> <<a, b, c, d>>]

Ipv4AddrInner_octets(self) == self.inner

Ipv4AddrInner_BROADCAST == [inner |-> <<255, 255, 255, 255>>]

Ipv4AddrInner_UNSPECIFIED == [inner |-> <<0, 0, 0, 0>>]

Ipv4AddrInner_LOCALHOST == [inner |-> <<127, 0, 0, 1>>]

\* #[derive(PartialEq)] on Ipv4AddrInner
Ipv4AddrInner_eq(s, o) == s.inner = o.inner

\* #[derive(Ord)] on Ipv4AddrInner
Ipv4AddrInner_cmp(s, o) == CmpArray(s.inner, o.inner)

\* ------------------------------------------------------- ipv4.rs: Ipv4Addr

\* new handing the first two octets to the backend in the wrong order.
Ipv4Addr_new_swapped(a, b, c, d) == [inner |-> Ipv4AddrInner_new(b, a, c, d)]

Ipv4Addr_new(a, b, c, d) == [inner |-> Ipv4AddrInner_new(a, b, c, d)]

Ipv4Addr_octets(self) == Ipv4AddrInner_octets(self.inner)

Ipv4Addr_BROADCAST == [inner |-> Ipv4AddrInner_BROADCAST]

Ipv4Addr_UNSPECIFIED == [inner |-> Ipv4AddrInner_UNSPECIFIED]

Ipv4Addr_LOCALHOST == [inner |-> Ipv4AddrInner_LOCALHOST]

Ipv4Addr_eq(self, other) == Ipv4AddrInner_eq(self.inner, other.inner)

Ipv4Addr_cmp(self, other) == Ipv4AddrInner_cmp(self.inner, other.inner)

Ipv4Addr_partial_cmp(self, other) == Some(Ipv4Addr_cmp(self, other))

\* impl From<[u8; 4]> for Ipv4Addr
Ipv4Addr_from_octets(octets) ==
    Ipv4Addr_new(octets[1], octets[2], octets[3], octets[4])

\* is_benchmarking comparing the whole second octet: 198.18.0.0/16 only.
Ipv4Addr_is_benchmarking_slash16(self) ==
    /\ Ipv4Addr_octets(self)[1] = 198
    /\ BitAnd(Ipv4Addr_octets(self)[2], 255) = 18

Ipv4Addr_is_benchmarking(self) ==
    /\ Ipv4Addr_octets(self)[1] = 198
    /\ BitAnd(Ipv4Addr_octets(self)[2], 254) = 18

Ipv4Addr_is_broadcast(self) == Ipv4Addr_eq(self, Ipv4Addr_BROADCAST)

Ipv4Addr_is_documentation(self) ==
    LET o == Ipv4Addr_octets(self) IN
    \/ o[1] = 192 /\ o[2] = 0 /\ o[3] = 2
    \/ o[1] = 198 /\ o[2] = 51 /\ o[3] = 100
    \/ o[1] = 203 /\ o[2] = 0 /\ o[3] = 113

Ipv4Addr_is_ietf_protocol_assignment(self) ==
    /\ Ipv4Addr_octets(self)[1] = 192
    /\ Ipv4Addr_octets(self)[2] = 0
    /\ Ipv4Addr_octets(self)[3] = 0

Ipv4Addr_is_link_local(self) ==
    LET o == Ipv4Addr_octets(self) IN o[1] = 169 /\ o[2] = 254

Ipv4Addr_is_loopback(self) == Ipv4Addr_octets(self)[1] = 127

\* is_multicast with the upper end written `< 239`.
Ipv4Addr_is_multicast_below_239(self) ==
    Ipv4Addr_octets(self)[1] >= 224 /\ Ipv4Addr_octets(self)[1] < 239

Ipv4Addr_is_multicast(self) ==
    Ipv4Addr_octets(self)[1] >= 224 /\ Ipv4Addr_octets(self)[1] <= 239

\* is_private with the 172 arm written 16..=32.
Ipv4Addr_is_private_wide(self) ==
    LET o == Ipv4Addr_octets(self) IN
    \/ o[1] = 10
    \/ o[1] = 172 /\ o[2] >= 16 /\ o[2] <= 32
    \/ o[1] = 192 /\ o[2] = 168

Ipv4Addr_is_private(self) ==
    LET o == Ipv4Addr_octets(self) IN
    \/ o[1] = 10
    \/ o[1] = 172 /\ o[2] >= 16 /\ o[2] <= 31
    \/ o[1] = 192 /\ o[2] = 168

\* is_reserved without the exclusion of the broadcast address.
Ipv4Addr_is_reserved_with_broadcast(self) ==
    BitAnd(Ipv4Addr_octets(self)[1], 240) = 240

Ipv4Addr_is_reserved(self) ==
    /\ BitAnd(Ipv4Addr_octets(self)[1], 240) = 240
    /\ ~Ipv4Addr_is_broadcast(self)

Ipv4Addr_is_shared(self) ==
    /\ Ipv4Addr_octets(self)[1] = 100
    /\ BitAnd(Ipv4Addr_octets(self)[2], 192) = 64

Ipv4Addr_is_unspecified(self) == Ipv4Addr_eq(self, Ipv4Addr_UNSPECIFIED)

\* is_global without the 192.0.0.9 / 192.0.0.10 arm of the match.
Ipv4Addr_is_global_no_exception(self) ==
    /\ ~Ipv4Addr_is_private(self)
    /\ ~Ipv4Addr_is_loopback(self)
    /\ ~Ipv4Addr_is_link_local(self)
    /\ ~Ipv4Addr_is_broadcast(self)
    /\ ~Ipv4Addr_is_documentation(self)
    /\ ~Ipv4Addr_is_shared(self)
    /\ ~Ipv4Addr_is_ietf_protocol_assignment(self)
    /\ ~Ipv4Addr_is_reserved(self)
    /\ ~Ipv4Addr_is_benchmarking(self)
    /\ Ipv4Addr_octets(self)[1] # 0

Ipv4Addr_is_global(self) ==
    LET o == Ipv4Addr_octets(self) IN
    IF o = <<192, 0, 0, 9>> \/ o = <<192, 0, 0, 10>> THEN TRUE
    ELSE /\ ~Ipv4Addr_is_private(self)
         /\ ~Ipv4Addr_is_loopback(self)
         /\ ~Ipv4Addr_is_link_local(self)
         /\ ~Ipv4Addr_is_broadcast(self)
         /\ ~Ipv4Addr_is_documentation(self)
         /\ ~Ipv4Addr_is_shared(self)
         /\ ~Ipv4Addr_is_ietf_protocol_assignment(self)
         /\ ~Ipv4Addr_is_reserved(self)
         /\ ~Ipv4Addr_is_benchmarking(self)
         /\ Ipv4Addr_octets(self)[1] # 0

\* Dotted decimal without the separators between the first two octets.
Ipv4Addr_fmt_missing_dot(self) ==
    LET octets == Ipv4Addr_octets(self) IN
    FmtDec(octets[1]) \o FmtDec(octets[2]) \o <<".">>
        \o FmtDec(octets[3]) \o <<".">> \o FmtDec(octets[4])

\* impl fmt::Display for Ipv4Addr
Ipv4Addr_fmt(self) ==
    LET octets == Ipv4Addr_octets(self) IN
    FmtDec(octets[1]) \o <<".">> \o FmtDec(octets[2]) \o <<".">>
        \o FmtDec(octets[3]) \o <<".">> \o FmtDec(octets[4])

\* impl From<u32> for Ipv4Addr
Ipv4Addr_from_u32(ip) == Ipv4Addr_from_octets(U32_to_be_bytes(ip))

\* From<Ipv4Addr> for u32 reading the octets least significant first.
u32_from_Ipv4Addr_le(ip) ==
    LET o == Ipv4Addr_octets(ip) IN U32_from_be_bytes(<<o[4], o[3], o[2], o[1]>>)

\* impl From<Ipv4Addr> for u32
u32_from_Ipv4Addr(ip) == U32_from_be_bytes(Ipv4Addr_octets(ip))

\* ---------------------------------------------- addr-mock: Ipv6AddrInner

Ipv6AddrInner_new(a, b, c, d, e, f, g, h) == [inner |-> <<a, b, c, d, e, f, g, h>>]

Ipv6AddrInner_segments(self) == self.inner

Ipv6AddrInner_LOCALHOST == [inner |-> <<0, 0, 0, 0, 0, 0, 0, 1>>]

Ipv6AddrInner_UNSPECIFIED == [inner |-> <<0, 0, 0, 0, 0, 0, 0, 0>>]

\* #[derive(PartialEq)] on Ipv6AddrInner
Ipv6AddrInner_eq(s, o) == s.inner = o.inner

\* ------------------------------------------------------- ipv6.rs: Ipv6Addr

Ipv6Addr_new(a, b, c, d, e, f, g, h) ==
    [inner |-> Ipv6AddrInner_new(a, b, c, d, e, f, g, h)]

Ipv6Addr_segments(self) == Ipv6AddrInner_segments(self.inner)

Ipv6Addr_LOCALHOST == [inner |-> Ipv6AddrInner_LOCALHOST]

Ipv6Addr_UNSPECIFIED == [inner |-> Ipv6AddrInner_UNSPECIFIED]

Ipv6Addr_eq(self, other) == Ipv6AddrInner_eq(self.inner, other.inner)

\* Ord for Ipv6Addr comparing the segments from the last one to the first.
Ipv6Addr_cmp_from_last(self, other) ==
    CmpArray([i \in 1..8 |-> Ipv6Addr_segments(self)[9 - i]],
             [i \in 1..8 |-> Ipv6Addr_segments(other)[9 - i]])

Ipv6Addr_cmp(self, other) ==
    CmpArray(Ipv6Addr_segments(self), Ipv6Addr_segments(other))

Ipv6Addr_partial_cmp(self, other) == Some(Ipv6Addr_cmp(self, other))

\* impl From<[u16; 8]> for Ipv6Addr with the last two segments exchanged.
Ipv6Addr_from_segments_swapped(s) ==
    Ipv6Addr_new(s[1], s[2], s[3], s[4], s[5], s[6], s[8], s[7])

\* impl From<[u16; 8]> for Ipv6Addr
Ipv6Addr_from_segments(s) ==
    Ipv6Addr_new(s[1], s[2], s[3], s[4], s[5], s[6], s[7], s[8])

Ipv6Addr_is_unspecified(self) ==
    Ipv6Addr_segments(self) = <<0, 0, 0, 0, 0, 0, 0, 0>>

Ipv6Addr_is_loopback(self) ==
    Ipv6Addr_segments(self) = <<0, 0, 0, 0, 0, 0, 0, 1>>

Ipv6Addr_is_unique_local(self) ==
    BitAnd(Ipv6Addr_segments(self)[1], 65024) = 64512

\* is_unicast_link_local_strict without the test of the fourth segment.
Ipv6Addr_is_unicast_link_local_strict_short(self) ==
    /\ BitAnd(Ipv6Addr_segments(self)[1], 65535) = 65152
    /\ BitAnd(Ipv6Addr_segments(self)[2], 65535) = 0
    /\ BitAnd(Ipv6Addr_segments(self)[3], 65535) = 0

Ipv6Addr_is_unicast_link_local_strict(self) ==
    /\ BitAnd(Ipv6Addr_segments(self)[1], 65535) = 65152
    /\ BitAnd(Ipv6Addr_segments(self)[2], 65535) = 0
    /\ BitAnd(Ipv6Addr_segments(self)[3], 65535) = 0
    /\ BitAnd(Ipv6Addr_segments(self)[4], 65535) = 0

Ipv6Addr_is_unicast_link_local(self) ==
    BitAnd(Ipv6Addr_segments(self)[1], 65472) = 65152

Ipv6Addr_is_documentation(self) ==
    Ipv6Addr_segments(self)[1] = 8193 /\ Ipv6Addr_segments(self)[2] = 3512

Ipv6Addr_is_multicast(self) ==
    BitAnd(Ipv6Addr_segments(self)[1], 65280) = 65280

Ipv6Addr_is_unicast_site_local(self) ==
    BitAnd(Ipv6Addr_segments(self)[1], 65472) = 65216

\* is_unicast_global that also excludes the deprecated site-local range.
Ipv6Addr_is_unicast_global_no_site_local(self) ==
    /\ ~Ipv6Addr_is_multicast(self)
    /\ ~Ipv6Addr_is_loopback(self)
    /\ ~Ipv6Addr_is_unicast_link_local(self)
    /\ ~Ipv6Addr_is_unicast_site_local(self)
    /\ ~Ipv6Addr_is_unique_local(self)
    /\ ~Ipv6Addr_is_unspecified(self)
    /\ ~Ipv6Addr_is_documentation(self)

Ipv6Addr_is_unicast_global(self) ==
    /\ ~Ipv6Addr_is_multicast(self)
    /\ ~Ipv6Addr_is_loopback(self)
    /\ ~Ipv6Addr_is_unicast_link_local(self)
    /\ ~Ipv6Addr_is_unique_local(self)
    /\ ~Ipv6Addr_is_unspecified(self)
    /\ ~Ipv6Addr_is_documentation(self)

\* The arms of the match in multicast_scope on `segments()[0] & 0x000f`.
Ipv6MulticastScope_of(nibble) ==
    CASE nibble = 1 -> Some("InterfaceLocal")
      [] nibble = 2 -> Some("LinkLocal")
      [] nibble = 3 -> Some("RealmLocal")
      [] nibble = 4 -> Some("AdminLocal")
      [] nibble = 5 -> Some("SiteLocal")
      [] nibble = 8 -> Some("OrganizationLocal")
      [] nibble = 14 -> Some("Global")
      [] OTHER -> None

\* multicast_scope without the is_multicast test around the match.
Ipv6Addr_multicast_scope_unguarded(self) ==
    Ipv6MulticastScope_of(BitAnd(Ipv6Addr_segments(self)[1], 15))

Ipv6Addr_multicast_scope(self) ==
    IF Ipv6Addr_is_multicast(self)
    THEN Ipv6MulticastScope_of(BitAnd(Ipv6Addr_segments(self)[1], 15))
    ELSE None

\* is_global without the `Some(Ipv6MulticastScope::Global) => true` arm.
Ipv6Addr_is_global_unicast_only(self) ==
    LET scope == Ipv6Addr_multicast_scope(self) IN
    IF scope = None THEN Ipv6Addr_is_unicast_global(self)
    ELSE FALSE

Ipv6Addr_is_global(self) ==
    LET scope == Ipv6Addr_multicast_scope(self) IN
    IF scope = Some("Global") THEN TRUE
    ELSE IF scope = None THEN Ipv6Addr_is_unicast_global(self)
    ELSE FALSE

\* to_ipv4 without the guard on the sixth segment.
Ipv6Addr_to_ipv4_any_f(self) ==
    LET s == Ipv6Addr_segments(self) IN
    IF \A i \in 1..5 : s[i] = 0
    THEN Some(Ipv4Addr_new(AsU8(Shr8(s[7])), AsU8(s[7]),
                           AsU8(Shr8(s[8])), AsU8(s[8])))
    ELSE None

Ipv6Addr_to_ipv4(self) ==
    LET s == Ipv6Addr_segments(self) IN
    IF (\A i \in 1..5 : s[i] = 0) /\ (s[6] = 0 \/ s[6] = 65535)
    THEN Some(Ipv4Addr_new(AsU8(Shr8(s[7])), AsU8(s[7]),
                           AsU8(Shr8(s[8])), AsU8(s[8])))
    ELSE None

\* octets writing each segment least significant byte first.
Ipv6Addr_octets_le(self) ==
    LET segments == Ipv6Addr_segments(self) IN
    [k \in 1..16 |-> U16_to_be_bytes(segments[(k + 1) \div 2])[IF k % 2 = 1 THEN 2 ELSE 1]]

Ipv6Addr_octets(self) ==
    LET segments == Ipv6Addr_segments(self)
        a == U16_to_be_bytes(segments[1])
        b == U16_to_be_bytes(segments[2])
        c == U16_to_be_bytes(segments[3])
        d == U16_to_be_bytes(segments[4])
        e == U16_to_be_bytes(segments[5])
        f == U16_to_be_bytes(segments[6])
        g == U16_to_be_bytes(segments[7])
        h == U16_to_be_bytes(segments[8])
    IN  <<a[1], a[2], b[1], b[2], c[1], c[2], d[1], d[2], e[1], e[2], f[1], f[2],
          g[1], g[2], h[1], h[2]>>

\* impl From<[u8; 16]> for Ipv6Addr
Ipv6Addr_from_octets(o) ==
    Ipv6Addr_new(U16_from_be_bytes(<<o[1], o[2]>>), U16_from_be_bytes(<<o[3], o[4]>>),
                 U16_from_be_bytes(<<o[5], o[6]>>), U16_from_be_bytes(<<o[7], o[8]>>),
                 U16_from_be_bytes(<<o[9], o[10]>>), U16_from_be_bytes(<<o[11], o[12]>>),
                 U16_from_be_bytes(<<o[13], o[14]>>), U16_from_be_bytes(<<o[15], o[16]>>))

\* to_ipv6_compatible writing the octets into bytes 8..11 instead of 12..15.
Ipv4Addr_to_ipv6_compatible_shifted(self) ==
    LET octets == Ipv4Addr_octets(self) IN
    Ipv6Addr_from_octets(<<0, 0, 0, 0, 0, 0, 0, 0,
                           octets[1], octets[2], octets[3], octets[4], 0, 0, 0, 0>>)

\* Ipv4Addr::to_ipv6_compatible (ipv4.rs)
Ipv4Addr_to_ipv6_compatible(self) ==
    LET octets == Ipv4Addr_octets(self) IN
    Ipv6Addr_from_octets(<<0, 0, 0, 0, 0, 0, 0, 0, 0, 0, 0, 0,
                           octets[1], octets[2], octets[3], octets[4]>>)

\* Ipv4Addr::to_ipv6_mapped (ipv4.rs)
Ipv4Addr_to_ipv6_mapped(self) ==
    LET octets == Ipv4Addr_octets(self) IN
    Ipv6Addr_from_octets(<<0, 0, 0, 0, 0, 0, 0, 0, 0, 0, 255, 255,
                           octets[1], octets[2], octets[3], octets[4]>>)

\* impl From<Ipv6Addr> for u128
u128_from_Ipv6Addr(ip) == U128_from_be_bytes(Ipv6Addr_octets(ip))

\* From<u128> for Ipv6Addr taking the bytes of the integer in reverse.
Ipv6Addr_from_u128_le(ip) ==
    Ipv6Addr_from_octets([k \in 1..16 |-> U128_to_be_bytes(ip)[17 - k]])

\* impl From<u128> for Ipv6Addr
Ipv6Addr_from_u128(ip) == Ipv6Addr_from_octets(U128_to_be_bytes(ip))

\* The loop of find_zero_slice with `>=` for `>`: the latest longest run wins.
RECURSIVE find_zero_slice_loop_latest(_, _, _, _, _, _)
find_zero_slice_loop_latest(segments, i, longest_span_len, longest_span_at, cur_span_len, cur_span_at) ==
    IF i >= 8 THEN <<longest_span_at, longest_span_len>>
    ELSE IF segments[i + 1] = 0
    THEN LET at == IF cur_span_len = 0 THEN i ELSE cur_span_at
             len == cur_span_len + 1
         IN  IF len >= longest_span_len
             THEN find_zero_slice_loop_latest(segments, i + 1, len, at, len, at)
             ELSE find_zero_slice_loop_latest(segments, i + 1, longest_span_len,
                                              longest_span_at, len, at)
    ELSE find_zero_slice_loop_latest(segments, i + 1, longest_span_len,
                                     longest_span_at, 0, 0)

RECURSIVE find_zero_slice_loop(_, _, _, _, _, _)
\* The body of `for i in 0..8` in find_zero_slice, from iteration i on.
find_zero_slice_loop(segments, i, longest_span_len, longest_span_at, cur_span_len, cur_span_at) ==
    IF i >= 8 THEN <<longest_span_at, longest_span_len>>
    ELSE IF segments[i + 1] = 0
    THEN LET at == IF cur_span_len = 0 THEN i ELSE cur_span_at
             len == cur_span_len + 1
         IN  IF len > longest_span_len
             THEN find_zero_slice_loop(segments, i + 1, len, at, len, at)
             ELSE find_zero_slice_loop(segments, i + 1, longest_span_len,
                                       longest_span_at, len, at)
    ELSE find_zero_slice_loop(segments, i + 1, longest_span_len,
                              longest_span_at, 0, 0)

\* find_zero_slice keeping the latest of the longest runs.
find_zero_slice_latest(segments) ==
    find_zero_slice_loop_latest(segments, 0, 0, 0, 0, 0)

\* (longest_span_at, longest_span_len), the start being a 0-based index.
find_zero_slice(segments) == find_zero_slice_loop(segments, 0, 0, 0, 0, 0)

RECURSIVE fmt_subslice_rest(_)
\* `for &seg in &segments[1..] { write!(fmt, ":{:x}", seg) }`
fmt_subslice_rest(segments) ==
    IF segments = <<>> THEN <<>>
    ELSE <<":">> \o FmtHex(Head(segments)) \o fmt_subslice_rest(Tail(segments))

\* fmt_subslice writing a ':' after every segment instead of between them.
fmt_subslice_trailing_colon(segments) ==
    IF segments # <<>>
    THEN FmtHex(segments[1]) \o fmt_subslice_rest(Tail(segments)) \o <<":">>
    ELSE <<>>

fmt_subslice(segments) ==
    IF segments # <<>>
    THEN FmtHex(segments[1]) \o fmt_subslice_rest(Tail(segments))
    ELSE <<>>

\* The dotted tail with the two bytes of each segment exchanged.
FmtDottedTail_low_first(g, h) ==
    FmtDec(AsU8(g)) \o <<".">> \o FmtDec(AsU8(Shr8(g))) \o <<".">>
        \o FmtDec(AsU8(h)) \o <<".">> \o FmtDec(AsU8(Shr8(h)))

\* "{}.{}.{}.{}" of the bytes of segments g and h.
FmtDottedTail(g, h) ==
    FmtDec(AsU8(Shr8(g))) \o <<".">> \o FmtDec(AsU8(g)) \o <<".">>
        \o FmtDec(AsU8(Shr8(h))) \o <<".">> \o FmtDec(AsU8(h))

\* The match of Display without its `::1` arm.
Ipv6Addr_fmt_arm_no_loopback(self) ==
    LET s == Ipv6Addr_segments(self) IN
    IF s = <<0, 0, 0, 0, 0, 0, 0, 0>> THEN "unspecified"
    ELSE IF \A i \in 1..6 : s[i] = 0 THEN "compatible"
    ELSE IF (\A i \in 1..5 : s[i] = 0) /\ s[6] = 65535 THEN "mapped"
    ELSE "general"

\* The arm of the match in Display that renders the address.
Ipv6Addr_fmt_arm(self) ==
    LET s == Ipv6Addr_segments(self) IN
    IF s = <<0, 0, 0, 0, 0, 0, 0, 0>> THEN "unspecified"
    ELSE IF s = <<0, 0, 0, 0, 0, 0, 0, 1>> THEN "loopback"
    ELSE IF \A i \in 1..6 : s[i] = 0 THEN "compatible"
    ELSE IF (\A i \in 1..5 : s[i] = 0) /\ s[6] = 65535 THEN "mapped"
    ELSE "general"

\* The `_` arm with `zeros_len > 0`: a lone zero segment is compressed too.
Ipv6Addr_fmt_general_single(self) ==
    LET zs        == find_zero_slice(Ipv6Addr_segments(self))
        zeros_at  == zs[1]
        zeros_len == zs[2]
        s         == Ipv6Addr_segments(self)
    IN  IF zeros_len > 0
        THEN fmt_subslice(SubSeq(s, 1, zeros_at)) \o <<":", ":">>
                 \o fmt_subslice(SubSeq(s, zeros_at + zeros_len + 1, 8))
        ELSE FmtHex(s[1]) \o <<":">> \o FmtHex(s[2]) \o <<":">> \o FmtHex(s[3])
                 \o <<":">> \o FmtHex(s[4]) \o <<":">> \o FmtHex(s[5]) \o <<":">>
                 \o FmtHex(s[6]) \o <<":">> \o FmtHex(s[7]) \o <<":">> \o FmtHex(s[8])

\* The `_` arm of Display: zero-run compression.
Ipv6Addr_fmt_general(self) ==
    LET zs        == find_zero_slice(Ipv6Addr_segments(self))
        zeros_at  == zs[1]
        zeros_len == zs[2]
        s         == Ipv6Addr_segments(self)
    IN  IF zeros_len > 1
        THEN fmt_subslice(SubSeq(s, 1, zeros_at)) \o <<":", ":">>
                 \o fmt_subslice(SubSeq(s, zeros_at + zeros_len + 1, 8))
        ELSE FmtHex(s[1]) \o <<":">> \o FmtHex(s[2]) \o <<":">> \o FmtHex(s[3])
                 \o <<":">> \o FmtHex(s[4]) \o <<":">> \o FmtHex(s[5]) \o <<":">>
                 \o FmtHex(s[6]) \o <<":">> \o FmtHex(s[7]) \o <<":">> \o FmtHex(s[8])

\* impl fmt::Display for Ipv6Addr
Ipv6Addr_fmt(self) ==
    LET s   == Ipv6Addr_segments(self)
        arm == Ipv6Addr_fmt_arm(self)
    IN  IF arm = "unspecified" THEN <<":", ":">>
        ELSE IF arm = "loopback" THEN <<":", ":", "1">>
        ELSE IF arm = "compatible" THEN <<":", ":">> \o FmtDottedTail(s[7], s[8])
        ELSE IF arm = "mapped"
        THEN <<":", ":", "f", "f", "f", "f", ":">> \o FmtDottedTail(s[7], s[8])
        ELSE Ipv6Addr_fmt_general(self)

\* ------------------------------------------------- parser (FromStr contract)
\* The parser module is declared in lib.rs but is not among the sources; these
\* definitions follow the contract the specification gives for it: dotted
\* decimal for IPv4; RFC 4291 hex groups, at most one "::" and an optional
\* dotted-decimal tail for IPv6.

\* The value of a digit character, or 16 if it is none.
DigitValue(c) ==
    IF \E i \in 1..16 : DigitChars[i] = c
    THEN (CHOOSE i \in 1..16 : DigitChars[i] = c) - 1
    ELSE 16

RECURSIVE ReadNumber(_, _, _)
\* The number the digits of `chars` write in `radix`, read after `acc`.
ReadNumber(chars, radix, acc) ==
    IF chars = <<>> THEN acc
    ELSE ReadNumber(Tail(chars), radix, acc * radix + DigitValue(Head(chars)))

IsNumber(chars, radix, maxLen) ==
    /\ Len(chars) >= 1
    /\ Len(chars) <= maxLen
    /\ \A i \in 1..Len(chars) : DigitValue(chars[i]) < radix

IsDecOctet(chars) == IsNumber(chars, 10, 3) /\ ReadNumber(chars, 10, 0) <= 255

IsHexGroup(chars) == IsNumber(chars, 16, 4)

RECURSIVE SplitOn(_, _)
\* The fields of `text` between the occurrences of the character `sep`.
SplitOn(text, sep) ==
    IF \E i \in 1..Len(text) : text[i] = sep
    THEN LET i == CHOOSE k \in 1..Len(text) :
                      text[k] = sep /\ \A j \in 1..(k - 1) : text[j] # sep
         IN  <<SubSeq(text, 1, i - 1)>> \o SplitOn(SubSeq(text, i + 1, Len(text)), sep)
    ELSE <<text>>

\* "a.b.c.d" to its four octets.
ParseOctets(text) ==
    LET f == SplitOn(text, ".") IN
    IF Len(f) = 4 /\ \A i \in 1..4 : IsDecOctet(f[i])
    THEN Some([i \in 1..4 |-> ReadNumber(f[i], 10, 0)])
    ELSE None

\* impl FromStr for Ipv4Addr
Ipv4Addr_from_str(text) ==
    LET o == ParseOctets(text) IN
    IF o.tag = "Some" THEN Some(Ipv4Addr_from_octets(o.val)) ELSE None

\* The segments of "g:g:...:g", the last group being a dotted-decimal tail of
\* two segments when withTail allows it.
ParseGroups(text, withTail) ==
    LET f    == SplitOn(text, ":")
        n    == Len(f)
        last == f[n]
        tail == IF withTail /\ \E i \in 1..Len(last) : last[i] = "."
                THEN ParseOctets(last) ELSE None
    IN  IF tail.tag = "Some"
        THEN IF \A i \in 1..(n - 1) : IsHexGroup(f[i])
             THEN Some([i \in 1..(n - 1) |-> ReadNumber(f[i], 16, 0)]
                       \o <<tail.val[1] * 256 + tail.val[2],
                            tail.val[3] * 256 + tail.val[4]>>)
             ELSE None
        ELSE IF \A i \in 1..n : IsHexGroup(f[i])
             THEN Some([i \in 1..n |-> ReadNumber(f[i], 16, 0)])
             ELSE None

\* The segments an IPv6 text denotes, or None.
ParseSegments(text) ==
    LET n  == Len(text)
        dc == {i \in 1..(n - 1) : text[i] = ":" /\ text[i + 1] = ":"}
    IN  IF dc = {}
        THEN LET g == ParseGroups(text, TRUE) IN
             IF g.tag = "Some" /\ Len(g.val) = 8 THEN g ELSE None
        ELSE IF Cardinality(dc) > 1 THEN None
        ELSE LET at   == CHOOSE i \in dc : TRUE
                 head == SubSeq(text, 1, at - 1)
                 rest == SubSeq(text, at + 2, n)
                 hs   == IF head = <<>> THEN Some(<<>>) ELSE ParseGroups(head, FALSE)
                 ts   == IF rest = <<>> THEN Some(<<>>) ELSE ParseGroups(rest, TRUE)
             IN  IF hs.tag = "Some" /\ ts.tag = "Some"
                    /\ Len(hs.val) + Len(ts.val) <= 7
                 THEN Some(hs.val
                           \o [i \in 1..(8 - Len(hs.val) - Len(ts.val)) |-> 0]
                           \o ts.val)
                 ELSE None

\* impl FromStr for Ipv6Addr
Ipv6Addr_from_str(text) ==
    LET g == ParseSegments(text) IN
    IF g.tag = "Some" THEN Some(Ipv6Addr_from_segments(g.val)) ELSE None

\* ------------------------------------------------------------ ip.rs: IpAddr

IpAddr_V4(a) == [tag |-> "V4", ip |-> a]

IpAddr_V6(a) == [tag |-> "V6", ip |-> a]

\* The discriminant of a variant, in declaration order.
Discriminant(tag) == IF tag = "V4" THEN 0 ELSE 1

\* #[derive(PartialEq)] on IpAddr
IpAddr_eq(self, other) ==
    /\ self.tag = other.tag
    /\ IF self.tag = "V4" THEN Ipv4Addr_eq(self.ip, other.ip)
       ELSE Ipv6Addr_eq(self.ip, other.ip)

\* #[derive(PartialOrd)] with the variants declared in the opposite order.
IpAddr_partial_cmp_v6_first(self, other) ==
    IF self.tag # other.tag
    THEN Some(CmpInt(Discriminant(other.tag), Discriminant(self.tag)))
    ELSE IF self.tag = "V4" THEN Ipv4Addr_partial_cmp(self.ip, other.ip)
    ELSE Ipv6Addr_partial_cmp(self.ip, other.ip)

\* #[derive(PartialOrd)] on IpAddr: the discriminants first, then the payloads.
IpAddr_partial_cmp(self, other) ==
    IF self.tag # other.tag
    THEN Some(CmpInt(Discriminant(self.tag), Discriminant(other.tag)))
    ELSE IF self.tag = "V4" THEN Ipv4Addr_partial_cmp(self.ip, other.ip)
    ELSE Ipv6Addr_partial_cmp(self.ip, other.ip)

IpAddr_is_ipv4(self) == self.tag = "V4"

IpAddr_is_ipv6(self) == self.tag = "V6"

\* impl fmt::Display for IpAddr
IpAddr_fmt(self) ==
    IF self.tag = "V4" THEN Ipv4Addr_fmt(self.ip) ELSE Ipv6Addr_fmt(self.ip)

\* impl PartialEq<Ipv4Addr> for IpAddr
IpAddr_eq_Ipv4Addr(self, other) ==
    IF self.tag = "V4" THEN Ipv4Addr_eq(self.ip, other) ELSE FALSE

\* impl PartialEq<IpAddr> for Ipv4Addr
Ipv4Addr_eq_IpAddr(self, other) ==
    IF other.tag = "V4" THEN Ipv4Addr_eq(self, other.ip) ELSE FALSE

\* impl PartialOrd<Ipv4Addr> for IpAddr
IpAddr_partial_cmp_Ipv4Addr(self, other) ==
    IF self.tag = "V4" THEN Ipv4Addr_partial_cmp(self.ip, other)
    ELSE Some("Greater")

\* impl PartialOrd<IpAddr> for Ipv4Addr
Ipv4Addr_partial_cmp_IpAddr(self, other) ==
    IF other.tag = "V4" THEN Ipv4Addr_partial_cmp(self, other.ip)
    ELSE Some("Less")

\* impl PartialEq<Ipv6Addr> for IpAddr
IpAddr_eq_Ipv6Addr(self, other) ==
    IF self.tag = "V4" THEN FALSE ELSE Ipv6Addr_eq(self.ip, other)

\* impl PartialOrd<Ipv6Addr> for IpAddr
IpAddr_partial_cmp_Ipv6Addr(self, other) ==
    IF self.tag = "V4" THEN Some("Less")
    ELSE Ipv6Addr_partial_cmp(self.ip, other)

\* ------------------------------------- socket backends (capability contract)
\* SocketAddressV4 and SocketAddressV6 are traits without an implementation
\* in the sources; the backend is a plain record of the fields the trait's
\* accessors name, each setter replacing its own field.

SA4_new(ip, port) == [ip |-> ip, port |-> port]

SA4_ip(self) == self.ip

SA4_set_ip(self, ip) == [self EXCEPT !.ip = ip]

SA4_port(self) == self.port

SA4_set_port(self, port) == [self EXCEPT !.port = port]

SA6_new(ip, port, flowinfo, scope_id) ==
    [ip |-> ip, port |-> port, flowinfo |-> flowinfo, scope_id |-> scope_id]

SA6_ip(self) == self.ip

SA6_set_ip(self, ip) == [self EXCEPT !.ip = ip]

SA6_port(self) == self.port

SA6_set_port(self, port) == [self EXCEPT !.port = port]

SA6_flowinfo(self) == self.flowinfo

SA6_set_flowinfo(self, new_flowinfo) == [self EXCEPT !.flowinfo = new_flowinfo]

SA6_scope_id(self) == self.scope_id

SA6_set_scope_id(self, new_scope_id) == [self EXCEPT !.scope_id = new_scope_id]

\* ------------------------------------------------- socket4.rs: SocketAddrV4

SocketAddrV4_new(ip, port) == [inner |-> SA4_new(ip, port)]

SocketAddrV4_ip(self) == SA4_ip(self.inner)

SocketAddrV4_set_ip(self, new_ip) == [inner |-> SA4_set_ip(self.inner, new_ip)]

SocketAddrV4_port(self) == SA4_port(self.inner)

SocketAddrV4_set_port(self, new_port) ==
    [inner |-> SA4_set_port(self.inner, new_port)]

\* impl fmt::Display for SocketAddrV4: "{}:{}"
SocketAddrV4_fmt(self) ==
    Ipv4Addr_fmt(SocketAddrV4_ip(self)) \o <<":">> \o FmtDec(SocketAddrV4_port(self))

\* impl PartialEq for SocketAddrV4: equality of (ip, port)
SocketAddrV4_eq(self, other) ==
    /\ Ipv4Addr_eq(SocketAddrV4_ip(self), SocketAddrV4_ip(other))
    /\ SocketAddrV4_port(self) = SocketAddrV4_port(other)

\* ------------------------------------------------- socket6.rs: SocketAddrV6

SocketAddrV6_new(ip, port, flowinfo, scope_id) ==
    [inner |-> SA6_new(ip, port, flowinfo, scope_id)]

SocketAddrV6_ip(self) == SA6_ip(self.inner)

SocketAddrV6_set_ip(self, new_ip) == [inner |-> SA6_set_ip(self.inner, new_ip)]

SocketAddrV6_port(self) == SA6_port(self.inner)

SocketAddrV6_set_port(self, new_port) ==
    [inner |-> SA6_set_port(self.inner, new_port)]

SocketAddrV6_flowinfo(self) == SA6_flowinfo(self.inner)

\* set_flowinfo handing the value to the backend's set_scope_id.
SocketAddrV6_set_flowinfo_as_scope(self, new_flowinfo) ==
    [inner |-> SA6_set_scope_id(self.inner, new_flowinfo)]

SocketAddrV6_set_flowinfo(self, new_flowinfo) ==
    [inner |-> SA6_set_flowinfo(self.inner, new_flowinfo)]

SocketAddrV6_scope_id(self) == SA6_scope_id(self.inner)

SocketAddrV6_set_scope_id(self, new_scope_id) ==
    [inner |-> SA6_set_scope_id(self.inner, new_scope_id)]

\* impl fmt::Display for SocketAddrV6: "[{}]:{}"
SocketAddrV6_fmt(self) ==
    <<"[">> \o Ipv6Addr_fmt(SocketAddrV6_ip(self)) \o <<"]", ":">>
        \o FmtDec(SocketAddrV6_port(self))

\* impl PartialEq for SocketAddrV6: equality of (ip, port, flowinfo, scope_id)
SocketAddrV6_eq(self, other) ==
    /\ Ipv6Addr_eq(SocketAddrV6_ip(self), SocketAddrV6_ip(other))
    /\ SocketAddrV6_port(self) = SocketAddrV6_port(other)
    /\ SocketAddrV6_flowinfo(self) = SocketAddrV6_flowinfo(other)
    /\ SocketAddrV6_scope_id(self) = SocketAddrV6_scope_id(other)

\* ----------------------------------------------------- socket.rs: SocketAddr

SocketAddr_V4(a) == [tag |-> "V4", a |-> a]

SocketAddr_V6(a) == [tag |-> "V6", a |-> a]

\* new building the V6 variant with scope_id 1.
SocketAddr_new_scoped(ip, port) ==
    IF ip.tag = "V4" THEN SocketAddr_V4(SocketAddrV4_new(ip.ip, port))
    ELSE SocketAddr_V6(SocketAddrV6_new(ip.ip, port, 0, 1))

SocketAddr_new(ip, port) ==
    IF ip.tag = "V4" THEN SocketAddr_V4(SocketAddrV4_new(ip.ip, port))
    ELSE SocketAddr_V6(SocketAddrV6_new(ip.ip, port, 0, 0))

SocketAddr_ip(self) ==
    IF self.tag = "V4" THEN IpAddr_V4(SocketAddrV4_ip(self.a))
    ELSE IpAddr_V6(SocketAddrV6_ip(self.a))

SocketAddr_port(self) ==
    IF self.tag = "V4" THEN SocketAddrV4_port(self.a)
    ELSE SocketAddrV6_port(self.a)

\* set_ip whose last arm rebuilds the value at port 0.
SocketAddr_set_ip_port_lost(self, new_ip) ==
    IF self.tag = "V4" /\ new_ip.tag = "V4"
    THEN SocketAddr_V4(SocketAddrV4_set_ip(self.a, new_ip.ip))
    ELSE IF self.tag = "V6" /\ new_ip.tag = "V6"
    THEN SocketAddr_V6(SocketAddrV6_set_ip(self.a, new_ip.ip))
    ELSE SocketAddr_new(new_ip, 0)

\* The value of *self after set_ip(new_ip).
SocketAddr_set_ip(self, new_ip) ==
    IF self.tag = "V4" /\ new_ip.tag = "V4"
    THEN SocketAddr_V4(SocketAddrV4_set_ip(self.a, new_ip.ip))
    ELSE IF self.tag = "V6" /\ new_ip.tag = "V6"
    THEN SocketAddr_V6(SocketAddrV6_set_ip(self.a, new_ip.ip))
    ELSE SocketAddr_new(new_ip, SocketAddr_port(self))

\* The value of *self after set_port(new_port).
SocketAddr_set_port(self, new_port) ==
    IF self.tag = "V4" THEN SocketAddr_V4(SocketAddrV4_set_port(self.a, new_port))
    ELSE SocketAddr_V6(SocketAddrV6_set_port(self.a, new_port))

SocketAddr_is_ipv4(self) == self.tag = "V4"

SocketAddr_is_ipv6(self) == self.tag = "V6"

\* impl fmt::Display for SocketAddr: "{}:{}" of ip() and port()
SocketAddr_fmt(self) ==
    IpAddr_fmt(SocketAddr_ip(self)) \o <<":">> \o FmtDec(SocketAddr_port(self))

\* PartialEq for SocketAddr comparing ip() and port() whatever the variants.
SocketAddr_eq_by_port(self, other) ==
    IF self.tag = "V4" /\ other.tag = "V4" THEN SocketAddrV4_eq(self.a, other.a)
    ELSE IF self.tag = "V6" /\ other.tag = "V6" THEN SocketAddrV6_eq(self.a, other.a)
    ELSE SocketAddr_port(self) = SocketAddr_port(other)

\* impl PartialEq for SocketAddr
SocketAddr_eq(self, other) ==
    IF self.tag = "V4" /\ other.tag = "V4" THEN SocketAddrV4_eq(self.a, other.a)
    ELSE IF self.tag = "V6" /\ other.tag = "V6" THEN SocketAddrV6_eq(self.a, other.a)
    ELSE FALSE

\* The values of ToSocketAddrError: the enum has no variant.
ToSocketAddrError == {}

Ok(v) == [tag |-> "Ok", val |-> v]

\* impl ToSocketAddrs for SocketAddr: Ok(Some(*self).into_iter()), the
\* iterator being the sequence of the items it yields.
SocketAddr_to_socket_addrs(self) == Ok(<<self>>)

\* impl ToSocketAddrs for SocketAddrV4
SocketAddrV4_to_socket_addrs(self) ==
    SocketAddr_to_socket_addrs(SocketAddr_V4(self))

\* ToSocketAddrs for SocketAddrV6 rebuilding the address from ip and port.
SocketAddrV6_to_socket_addrs_rebuilt(self) ==
    SocketAddr_to_socket_addrs(
        SocketAddr_new(IpAddr_V6(SocketAddrV6_ip(self)), SocketAddrV6_port(self)))

\* impl ToSocketAddrs for SocketAddrV6
SocketAddrV6_to_socket_addrs(self) ==
    SocketAddr_to_socket_addrs(SocketAddr_V6(self))

\* impl ToSocketAddrs for (Ipv4Addr, u16)
Ipv4AddrPort_to_socket_addrs(ip, port) ==
    SocketAddrV4_to_socket_addrs(SocketAddrV4_new(ip, port))

\* impl ToSocketAddrs for (Ipv6Addr, u16)
Ipv6AddrPort_to_socket_addrs(ip, port) ==
    SocketAddrV6_to_socket_addrs(SocketAddrV6_new(ip, port, 0, 0))

\* impl ToSocketAddrs for (IpAddr, u16)
IpAddrPort_to_socket_addrs(ip, port) ==
    IF ip.tag = "V4" THEN Ipv4AddrPort_to_socket_addrs(ip.ip, port)
    ELSE Ipv6AddrPort_to_socket_addrs(ip.ip, port)

\* ------------------------------------------------------------------ inputs

Octets1 == (0..MaxOctet) \cup {10, 11, 100, 127, 169, 172, 192, 198, 203, 224, 239, 240, 255}

Octets2 == (0..MaxOctet) \cup {16, 17, 18, 19, 20, 31, 32, 51, 64, 128, 168, 169, 254, 255}

Octets3 == (0..MaxOctet) \cup {100, 113, 255}

Octets4 == (0..MaxOctet) \cup {9, 10, 254, 255}

\* [u8; 4] arrays handed to the IPv4 constructors.
InputsV4 ==
    {[fam |-> "V4", arr |-> <<a, b, c, d>>] :
        a \in Octets1, b \in Octets2, c \in Octets3, d \in Octets4}

SegsLow == 0..MaxSeg

\* [u16; 8] arrays handed to the IPv6 constructors (0x2001, 0xfe80, 0xdb8,
\* 0xffff, 0xc00a, 0x2ff, 0x10 besides the low values).
InputsV6 ==
    {[fam |-> "V6", arr |-> <<a, b, c, d, e, f, g, h>>] :
        a \in SegsLow \cup {8193, 65152}, b \in SegsLow \cup {3512},
        c \in SegsLow, d \in SegsLow, e \in SegsLow,
        f \in SegsLow \cup {65535}, g \in SegsLow \cup {49162},
        h \in SegsLow \cup {767, 16}}

\* [u16; 8] arrays for the classification by the first segment: ff00..ff0f
\* (every scope nibble), fc00, fdff, fe00, fe80, febf, fec0 and feff.
InputsV6Scoped ==
    {[fam |-> "V6", arr |-> <<a, b, 0, 0, 0, 0, 0, h>>] :
        a \in (65280..65295) \cup {64512, 65023, 65024, 65152, 65215, 65216, 65279},
        b \in {0, 3512}, h \in SegsLow}

\* u32 values, as <<hi, lo>> (0x0d0c, 0x0b0a, 0x8000, 0xffff besides the low
\* values).
InputsU32 ==
    {[fam |-> "U32", arr |-> <<hi, lo>>] :
        hi \in SegsLow \cup {3340, 32768, 65535},
        lo \in SegsLow \cup {2826, 65535}}

\* u128 values, as their eight 16-bit digits.
InputsU128 ==
    {[fam |-> "U128", arr |-> <<a, 0, 0, d, 0, 0, 0, h>>] :
        a \in SegsLow \cup {8193, 65535}, d \in SegsLow,
        h \in SegsLow \cup {767, 65535}}

OctetsLow == (0..MaxOctet) \cup {255}

\* [u8; 16] arrays handed to From<[u8; 16]>.
InputsB16 ==
    {[fam |-> "B16", arr |-> <<a, b, 0, 0, 0, 0, 0, 0, 0, 0, 0, 0, 0, 0, g, h>>] :
        a \in OctetsLow, b \in OctetsLow, g \in OctetsLow, h \in OctetsLow}

\* The address a constructor builds from the input array.
InputV4 == Ipv4Addr_new(input.arr[1], input.arr[2], input.arr[3], input.arr[4])

InputV6 ==
    Ipv6Addr_new(input.arr[1], input.arr[2], input.arr[3], input.arr[4],
                 input.arr[5], input.arr[6], input.arr[7], input.arr[8])

SockV4Ips == {Ipv4Addr_LOCALHOST, Ipv4Addr_BROADCAST, Ipv4Addr_new(10, 0, 0, 1)}

SockV6Ips ==
    {Ipv6Addr_LOCALHOST, Ipv6Addr_UNSPECIFIED,
     Ipv6Addr_new(8193, 3512, 0, 0, 0, 0, 0, 1)}

IpAddrs == {IpAddr_V4(a) : a \in SockV4Ips} \cup {IpAddr_V6(b) : b \in SockV6Ips}

Ports == (0..MaxPort) \cup {8080, 65535}

\* flowinfo and scope_id values: the low ones and 0x7fffffff.
Flows == (0..MaxFlow) \cup {2147483647}

\* Every socket address the constructors build from the pools.
SocketAddrs ==
    {SocketAddr_new(ip, p) : ip \in IpAddrs, p \in Ports}
        \cup {SocketAddr_V6(SocketAddrV6_new(b, p, f, s)) :
                 b \in SockV6Ips, p \in Ports, f \in Flows, s \in Flows}

\* The record of the last call: the operation, its receiver before the call,
\* its argument and what it returned.
Called(op, self, arg, ret) ==
    call' = [op |-> op, self |-> self, arg |-> arg, ret |-> ret]

NoCall == [op |-> "none", self |-> None, arg |-> None, ret |-> None]

\* ---------------------------------------------- address operations (SpecAddr)

InitAddr ==
    /\ input \in InputsV4 \cup InputsV6 \cup InputsV6Scoped
                 \cup InputsU32 \cup InputsU128 \cup InputsB16
    /\ sock = SocketAddr_new(IpAddr_V4(Ipv4Addr_LOCALHOST), 0)
    /\ call = NoCall

\* Ipv4Addr::new(o[0], o[1], o[2], o[3]).octets()
CallV4Octets ==
    /\ input.fam = "V4"
    /\ Called("Ipv4Addr::octets", InputV4, None, Ipv4Addr_octets(InputV4))
    /\ UNCHANGED <<sock, input>>

\* Ipv4Addr::from(x.octets())
CallV4FromOctets ==
    /\ input.fam = "V4"
    /\ Called("Ipv4Addr::from", InputV4, Ipv4Addr_octets(InputV4),
              Ipv4Addr_from_octets(Ipv4Addr_octets(InputV4)))
    /\ UNCHANGED <<sock, input>>

CallV4IsGlobal ==
    /\ input.fam = "V4"
    /\ Called("Ipv4Addr::is_global", InputV4, None, Ipv4Addr_is_global(InputV4))
    /\ UNCHANGED <<sock, input>>

\* x.to_string()
CallV4Fmt ==
    /\ input.fam = "V4"
    /\ Called("Ipv4Addr::fmt", InputV4, None, Ipv4Addr_fmt(InputV4))
    /\ UNCHANGED <<sock, input>>

\* x.to_string().parse::<Ipv4Addr>()
CallV4Parse ==
    /\ input.fam = "V4"
    /\ Called("Ipv4Addr::from_str", InputV4, Ipv4Addr_fmt(InputV4),
              Ipv4Addr_from_str(Ipv4Addr_fmt(InputV4)))
    /\ UNCHANGED <<sock, input>>

\* find_zero_slice(&self.segments()), reached in the `_` arm of Display only
CallFindZeroSlice ==
    /\ input.fam = "V6"
    /\ Ipv6Addr_fmt_arm(InputV6) = "general"
    /\ Called("find_zero_slice", InputV6, None,
              find_zero_slice(Ipv6Addr_segments(InputV6)))
    /\ UNCHANGED <<sock, input>>

CallV6Fmt ==
    /\ input.fam = "V6"
    /\ Called("Ipv6Addr::fmt", InputV6, None, Ipv6Addr_fmt(InputV6))
    /\ UNCHANGED <<sock, input>>

\* x.to_string().parse::<Ipv6Addr>()
CallV6Parse ==
    /\ input.fam = "V6"
    /\ Called("Ipv6Addr::from_str", InputV6, Ipv6Addr_fmt(InputV6),
              Ipv6Addr_from_str(Ipv6Addr_fmt(InputV6)))
    /\ UNCHANGED <<sock, input>>

CallV4IsReserved ==
    /\ input.fam = "V4"
    /\ Called("Ipv4Addr::is_reserved", InputV4, None, Ipv4Addr_is_reserved(InputV4))
    /\ UNCHANGED <<sock, input>>

CallV4IsBenchmarking ==
    /\ input.fam = "V4"
    /\ Called("Ipv4Addr::is_benchmarking", InputV4, None,
              Ipv4Addr_is_benchmarking(InputV4))
    /\ UNCHANGED <<sock, input>>

CallV4IsPrivate ==
    /\ input.fam = "V4"
    /\ Called("Ipv4Addr::is_private", InputV4, None, Ipv4Addr_is_private(InputV4))
    /\ UNCHANGED <<sock, input>>

\* u32::from(x)
CallU32FromV4 ==
    /\ input.fam = "V4"
    /\ Called("u32::from", InputV4, None, u32_from_Ipv4Addr(InputV4))
    /\ UNCHANGED <<sock, input>>

\* Ipv4Addr::from(u32::from(x))
CallV4FromU32 ==
    /\ input.fam = "V4"
    /\ Called("Ipv4Addr::from<u32>", InputV4, u32_from_Ipv4Addr(InputV4),
              Ipv4Addr_from_u32(u32_from_Ipv4Addr(InputV4)))
    /\ UNCHANGED <<sock, input>>

\* u32::from(Ipv4Addr::from(n))
CallU32RoundTrip ==
    /\ input.fam = "U32"
    /\ Called("u32::from(Ipv4Addr::from)", Ipv4Addr_from_u32(input.arr), input.arr,
              u32_from_Ipv4Addr(Ipv4Addr_from_u32(input.arr)))
    /\ UNCHANGED <<sock, input>>

\* Ipv6Addr::new(s[0], ..., s[7]).segments()
CallV6Segments ==
    /\ input.fam = "V6"
    /\ Called("Ipv6Addr::segments", InputV6, None, Ipv6Addr_segments(InputV6))
    /\ UNCHANGED <<sock, input>>

\* Ipv6Addr::from(x.segments())
CallV6FromSegments ==
    /\ input.fam = "V6"
    /\ Called("Ipv6Addr::from<[u16; 8]>", InputV6, Ipv6Addr_segments(InputV6),
              Ipv6Addr_from_segments(Ipv6Addr_segments(InputV6)))
    /\ UNCHANGED <<sock, input>>

CallV6Octets ==
    /\ input.fam = "V6"
    /\ Called("Ipv6Addr::octets", InputV6, None, Ipv6Addr_octets(InputV6))
    /\ UNCHANGED <<sock, input>>

\* Ipv6Addr::from(o).octets()
CallV6FromOctets ==
    /\ input.fam = "B16"
    /\ Called("Ipv6Addr::from<[u8; 16]>", Ipv6Addr_from_octets(input.arr), input.arr,
              Ipv6Addr_octets(Ipv6Addr_from_octets(input.arr)))
    /\ UNCHANGED <<sock, input>>

\* u128::from(x)
CallU128FromV6 ==
    /\ input.fam = "V6"
    /\ Called("u128::from", InputV6, None, u128_from_Ipv6Addr(InputV6))
    /\ UNCHANGED <<sock, input>>

\* Ipv6Addr::from(u128::from(x))
CallV6FromU128 ==
    /\ input.fam = "V6"
    /\ Called("Ipv6Addr::from<u128>", InputV6, u128_from_Ipv6Addr(InputV6),
              Ipv6Addr_from_u128(u128_from_Ipv6Addr(InputV6)))
    /\ UNCHANGED <<sock, input>>

\* u128::from(Ipv6Addr::from(n))
CallU128RoundTrip ==
    /\ input.fam = "U128"
    /\ Called("u128::from(Ipv6Addr::from)", Ipv6Addr_from_u128(input.arr), input.arr,
              u128_from_Ipv6Addr(Ipv6Addr_from_u128(input.arr)))
    /\ UNCHANGED <<sock, input>>

CallV6MulticastScope ==
    /\ input.fam = "V6"
    /\ Called("Ipv6Addr::multicast_scope", InputV6, None,
              Ipv6Addr_multicast_scope(InputV6))
    /\ UNCHANGED <<sock, input>>

CallV6IsGlobal ==
    /\ input.fam = "V6"
    /\ Called("Ipv6Addr::is_global", InputV6, None, Ipv6Addr_is_global(InputV6))
    /\ UNCHANGED <<sock, input>>

CallV6ToIpv4 ==
    /\ input.fam = "V6"
    /\ Called("Ipv6Addr::to_ipv4", InputV6, None, Ipv6Addr_to_ipv4(InputV6))
    /\ UNCHANGED <<sock, input>>

NextAddr ==
    \/ CallV4Octets
    \/ CallV4FromOctets
    \/ CallV4IsGlobal
    \/ CallV4Fmt
    \/ CallV4Parse
    \/ CallFindZeroSlice
    \/ CallV6Fmt
    \/ CallV6Parse
    \/ CallV4IsReserved
    \/ CallV4IsBenchmarking
    \/ CallV4IsPrivate
    \/ CallU32FromV4
    \/ CallV4FromU32
    \/ CallU32RoundTrip
    \/ CallV6Segments
    \/ CallV6FromSegments
    \/ CallV6Octets
    \/ CallV6FromOctets
    \/ CallU128FromV6
    \/ CallV6FromU128
    \/ CallU128RoundTrip
    \/ CallV6MulticastScope
    \/ CallV6IsGlobal
    \/ CallV6ToIpv4

SpecAddr == InitAddr /\ [][NextAddr]_vars

\* ------------------------------------------------------ address properties

\* The octets the rule table of the IPv4 predicates is stated over.
TablePrivate(o) ==
    \/ o[1] = 10
    \/ o[1] = 172 /\ o[2] \in 16..31
    \/ o[1] = 192 /\ o[2] = 168

TableDocumentation(o) ==
    \/ <<o[1], o[2], o[3]>> = <<192, 0, 2>>
    \/ <<o[1], o[2], o[3]>> = <<198, 51, 100>>
    \/ <<o[1], o[2], o[3]>> = <<203, 0, 113>>

TableNotGlobal(o) ==
    \/ TablePrivate(o)
    \/ o[1] = 127
    \/ o[1] = 169 /\ o[2] = 254
    \/ o = <<255, 255, 255, 255>>
    \/ TableDocumentation(o)
    \/ o[1] = 100 /\ o[2] \in 64..127
    \/ <<o[1], o[2], o[3]>> = <<192, 0, 0>>
    \/ o[1] >= 240 /\ o # <<255, 255, 255, 255>>
    \/ o[1] = 198 /\ o[2] \in {18, 19}

\* C3: is_global is true at 192.0.0.9 and 192.0.0.10; at every other IPv4
\* address it is true iff the address is in none of the private, loopback,
\* link-local, broadcast, documentation, shared, IETF-protocol-assignment,
\* reserved and benchmarking ranges and its first octet is not 0.
C3_IsGlobalTable ==
    call.op = "Ipv4Addr::is_global" =>
        LET o == Ipv4Addr_octets(call.self) IN
        IF o = <<192, 0, 0, 9>> \/ o = <<192, 0, 0, 10>>
        THEN call.ret = TRUE
        ELSE call.ret = (~TableNotGlobal(o) /\ o[1] # 0)

C3_Witness ==
    /\ call.op = "Ipv4Addr::is_global"
    /\ Ipv4Addr_octets(call.self) = <<192, 0, 0, 9>>
    /\ call.ret = TRUE

\* Segments at + 1 .. at + len (0-based start `at`) are a run of zeros.
ZeroRun(s, at, len) ==
    /\ len >= 1
    /\ at >= 0
    /\ at + len <= 8
    /\ \A i \in (at + 1)..(at + len) : s[i] = 0

\* The length of the longest run of zero segments, 0 when there is none.
LongestRun(s) ==
    LET lens == {l \in 1..8 : \E a \in 0..7 : ZeroRun(s, a, l)} IN
    IF lens = {} THEN 0 ELSE CHOOSE l \in lens : \A m \in lens : m <= l

\* The smallest start of a run of the greatest length.
EarliestLongest(s) ==
    LET l == LongestRun(s)
        starts == {a \in 0..7 : ZeroRun(s, a, l)}
    IN  CHOOSE a \in starts : \A b \in starts : a <= b

\* C4: for an address rendered by the general arm, the run find_zero_slice
\* returns is a run of zero segments that cannot be extended, no run is longer,
\* and no run of the same length starts before it; [0,0,0,0,1,0,0,1] renders
\* as "::1:0:0:1".
C4_LongestEarliestRun ==
    /\ (call.op = "find_zero_slice" /\ LongestRun(Ipv6Addr_segments(call.self)) > 0) =>
          LET s   == Ipv6Addr_segments(call.self)
              at  == call.ret[1]
              len == call.ret[2]
          IN  /\ ZeroRun(s, at, len)
              /\ at = 0 \/ s[at] # 0
              /\ at + len = 8 \/ s[at + len + 1] # 0
              /\ \A a \in 0..7 : ~ZeroRun(s, a, len + 1)
              /\ \A a \in 0..7 : ZeroRun(s, a, len) => at <= a
    /\ (call.op = "Ipv6Addr::fmt"
            /\ Ipv6Addr_segments(call.self) = <<0, 0, 0, 0, 1, 0, 0, 1>>) =>
          call.ret = <<":", ":", "1", ":", "0", ":", "0", ":", "1">>

\* Two runs of length 2: the one at index 1 is returned, not the one at 4.
C4_Witness ==
    /\ call.op = "find_zero_slice"
    /\ Ipv6Addr_segments(call.self) = <<1, 0, 0, 1, 0, 0, 1, 1>>
    /\ call.ret = <<1, 2>>

\* `text` writes `segs` as lowercase hex groups without leading zeros, joined
\* by ':' (nothing at all for no segments).
WritesSegments(text, segs) ==
    IF segs = <<>> THEN text = <<>>
    ELSE LET f == SplitOn(text, ":") IN
         /\ Len(f) = Len(segs)
         /\ \A i \in 1..Len(f) :
               /\ IsHexGroup(f[i])
               /\ Len(f[i]) = 1 \/ f[i][1] # "0"
               /\ ReadNumber(f[i], 16, 0) = segs[i]

\* The positions at which "::" starts in a text.
DoubleColons(text) ==
    {i \in 1..(Len(text) - 1) : text[i] = ":" /\ text[i + 1] = ":"}

\* C5: an address rendered by the general arm whose longest zero run has
\* length 0 or 1 is written as its eight hex groups without "::"; when the
\* longest run has length 2 or more, exactly the earliest longest run is
\* replaced by "::" and every other segment is written.
C5_CompressionForm ==
    (call.op = "Ipv6Addr::fmt" /\ Ipv6Addr_fmt_arm(call.self) = "general") =>
        LET s == Ipv6Addr_segments(call.self)
            l == LongestRun(s)
            t == call.ret
        IN  IF l <= 1
            THEN DoubleColons(t) = {} /\ WritesSegments(t, s)
            ELSE LET at == EarliestLongest(s) IN
                 /\ Cardinality(DoubleColons(t)) = 1
                 /\ \A p \in DoubleColons(t) :
                       /\ WritesSegments(SubSeq(t, 1, p - 1), SubSeq(s, 1, at))
                       /\ WritesSegments(SubSeq(t, p + 2, Len(t)),
                                         SubSeq(s, at + l + 1, 8))

\* 2001:db8:0:0:1:0:0:1 is written "2001:db8::1:0:0:1".
C5_Witness ==
    /\ call.op = "Ipv6Addr::fmt"
    /\ Ipv6Addr_segments(call.self) = <<8193, 3512, 0, 0, 1, 0, 0, 1>>
    /\ call.ret = <<"2", "0", "0", "1", ":", "d", "b", "8", ":", ":",
                    "1", ":", "0", ":", "0", ":", "1">>

\* `text` is a.b.c.d for the bytes of segments g and h, without leading zeros.
WritesDottedTail(text, g, h) ==
    LET f == SplitOn(text, ".") IN
    /\ ParseOctets(text) = Some(<<g \div 256, g % 256, h \div 256, h % 256>>)
    /\ \A i \in 1..Len(f) : Len(f[i]) = 1 \/ f[i][1] # "0"

\* C6: all-zero segments render as "::", 0:0:0:0:0:0:0:1 as "::1", any other
\* address with segments 0..5 zero as "::a.b.c.d", an address with segments
\* 0..4 zero and segment 5 = 0xffff as "::ffff:a.b.c.d" (a.b.c.d the bytes of
\* segments 6 and 7), and no other address is rendered with a dotted tail.
C6_SpecialCases ==
    call.op = "Ipv6Addr::fmt" =>
        LET s == Ipv6Addr_segments(call.self)
            t == call.ret
            lead == \A i \in 1..5 : s[i] = 0
            compat == lead /\ s[6] = 0 /\ <<s[7], s[8]>> \notin {<<0, 0>>, <<0, 1>>}
            mapped == lead /\ s[6] = 65535
        IN  /\ s = <<0, 0, 0, 0, 0, 0, 0, 0>> => t = <<":", ":">>
            /\ s = <<0, 0, 0, 0, 0, 0, 0, 1>> => t = <<":", ":", "1">>
            /\ compat => /\ SubSeq(t, 1, 2) = <<":", ":">>
                         /\ WritesDottedTail(SubSeq(t, 3, Len(t)), s[7], s[8])
            /\ mapped => /\ SubSeq(t, 1, 7) = <<":", ":", "f", "f", "f", "f", ":">>
                         /\ WritesDottedTail(SubSeq(t, 8, Len(t)), s[7], s[8])
            /\ (\E i \in 1..Len(t) : t[i] = ".") <=> (compat \/ mapped)

\* ::ffff:c00a:2ff is written "::ffff:192.10.2.255".
C6_Witness ==
    /\ call.op = "Ipv6Addr::fmt"
    /\ Ipv6Addr_segments(call.self) = <<0, 0, 0, 0, 0, 65535, 49162, 767>>
    /\ call.ret = <<":", ":", "f", "f", "f", "f", ":", "1", "9", "2", ".",
                    "1", "0", ".", "2", ".", "2", "5", "5">>

\* C7: parsing the rendering of an IPv4 or IPv6 address yields a value equal
\* to the address (so two different addresses never render to the same text).
C7_RenderRoundTrip ==
    /\ call.op = "Ipv4Addr::from_str" =>
          call.ret.tag = "Some" /\ Ipv4Addr_eq(call.ret.val, call.self)
    /\ call.op = "Ipv6Addr::from_str" =>
          call.ret.tag = "Some" /\ Ipv6Addr_eq(call.ret.val, call.self)

\* "2001:db8::1:0:0:1" parses back to 2001:db8:0:0:1:0:0:1.
C7_Witness ==
    /\ call.op = "Ipv6Addr::from_str"
    /\ Ipv6Addr_segments(call.self) = <<8193, 3512, 0, 0, 1, 0, 0, 1>>
    /\ call.arg = <<"2", "0", "0", "1", ":", "d", "b", "8", ":", ":",
                    "1", ":", "0", ":", "0", ":", "1">>
    /\ call.ret = Some(call.self)

\* C10: Ipv4Addr::new(o[0], o[1], o[2], o[3]).octets() is o for every array o
\* of four bytes, and Ipv4Addr::from(x.octets()) equals x.
C10_OctetsRoundTrip ==
    /\ call.op = "Ipv4Addr::octets" => call.ret = input.arr
    /\ call.op = "Ipv4Addr::from" =>
          /\ call.arg = input.arr
          /\ Ipv4Addr_eq(call.ret, call.self)

C10_Witness ==
    /\ call.op = "Ipv4Addr::octets"
    /\ input.arr = <<192, 168, 2, 255>>
    /\ call.ret = <<192, 168, 2, 255>>

\* C11: Ipv6Addr::new(s[0], ..., s[7]).segments() is s for every array s of
\* eight 16-bit segments, and Ipv6Addr::from(x.segments()) equals x.
C11_SegmentsRoundTrip ==
    /\ call.op = "Ipv6Addr::segments" => call.ret = input.arr
    /\ call.op = "Ipv6Addr::from<[u16; 8]>" =>
          /\ call.arg = input.arr
          /\ Ipv6Addr_eq(call.ret, call.self)

C11_Witness ==
    /\ call.op = "Ipv6Addr::from<[u16; 8]>"
    /\ input.arr = <<0, 0, 0, 0, 0, 65535, 49162, 767>>
    /\ Ipv6Addr_segments(call.ret) = <<0, 0, 0, 0, 0, 65535, 49162, 767>>

\* C12: Ipv4Addr::from(u32::from(x)) equals x, u32::from(Ipv4Addr::from(n))
\* is n, and u32::from(a.b.c.d) is a*2^24 + b*2^16 + c*2^8 + d: its upper half
\* is a*2^8 + b and its lower half c*2^8 + d.
C12_U32RoundTrip ==
    /\ call.op = "Ipv4Addr::from<u32>" => Ipv4Addr_eq(call.ret, call.self)
    /\ call.op = "u32::from(Ipv4Addr::from)" => call.ret = call.arg
    /\ call.op = "u32::from" =>
          LET o == input.arr IN
          /\ call.ret = <<o[1] * 256 + o[2], o[3] * 256 + o[4]>>
          /\ o[1] < 128 =>
                call.ret[1] * 65536 + call.ret[2]
                    = o[1] * 16777216 + o[2] * 65536 + o[3] * 256 + o[4]

\* u32::from(10.255.255.254) is 0x0affFFFE.
C12_Witness ==
    /\ call.op = "u32::from"
    /\ input.arr = <<10, 255, 255, 254>>
    /\ call.ret = <<2815, 65534>>

\* C13: Ipv6Addr::from(u128::from(x)) equals x, u128::from(Ipv6Addr::from(n))
\* is n, and segment 0 is the most significant 16 bits of u128::from(x).
C13_U128RoundTrip ==
    /\ call.op = "Ipv6Addr::from<u128>" => Ipv6Addr_eq(call.ret, call.self)
    /\ call.op = "u128::from(Ipv6Addr::from)" => call.ret = call.arg
    /\ call.op = "u128::from" =>
          /\ Len(call.ret) = 8
          /\ call.ret[1] = Ipv6Addr_segments(call.self)[1]

\* 0x2001_0000_0000_0001_0000_0000_0000_02ff becomes 2001:0:0:1::2ff and back.
C13_Witness ==
    /\ call.op = "u128::from(Ipv6Addr::from)"
    /\ call.arg = <<8193, 0, 0, 1, 0, 0, 0, 767>>
    /\ Ipv6Addr_segments(call.self) = <<8193, 0, 0, 1, 0, 0, 0, 767>>
    /\ call.ret = call.arg

\* C14: octets()[2i] is the high byte and octets()[2i+1] the low byte of
\* segments()[i] for every i in 0..7, and Ipv6Addr::from(o).octets() is o for
\* every array o of sixteen bytes.
C14_OctetsBigEndian ==
    /\ call.op = "Ipv6Addr::octets" =>
          /\ Len(call.ret) = 16
          /\ \A i \in 0..7 :
                /\ call.ret[2 * i + 1] = Ipv6Addr_segments(call.self)[i + 1] \div 256
                /\ call.ret[2 * i + 2] = Ipv6Addr_segments(call.self)[i + 1] % 256
    /\ call.op = "Ipv6Addr::from<[u8; 16]>" => call.ret = call.arg

\* The octets of ::ffff:c00a:2ff end in ff ff c0 0a 02 ff.
C14_Witness ==
    /\ call.op = "Ipv6Addr::octets"
    /\ Ipv6Addr_segments(call.self) = <<0, 0, 0, 0, 0, 65535, 49162, 767>>
    /\ SubSeq(call.ret, 11, 16) = <<255, 255, 192, 10, 2, 255>>

\* The scope each assigned nibble names.
ScopeNames ==
    {<<1, "InterfaceLocal">>, <<2, "LinkLocal">>, <<3, "RealmLocal">>,
     <<4, "AdminLocal">>, <<5, "SiteLocal">>, <<8, "OrganizationLocal">>,
     <<14, "Global">>}

\* The first segment is in ff00::/8.
HighByteFF(x) == Ipv6Addr_segments(x)[1] \div 256 = 255

\* The low four bits of the first segment.
ScopeNibble(x) == Ipv6Addr_segments(x)[1] % 16

\* C15: multicast_scope is None for an address that is not multicast; for a
\* multicast address it is the scope the low 4 bits of segment 0 name (1, 2,
\* 3, 4, 5, 8, 14) and None for every other nibble.
C15_MulticastScope ==
    call.op = "Ipv6Addr::multicast_scope" =>
        /\ Ipv6Addr_is_multicast(call.self) = HighByteFF(call.self)
        /\ IF HighByteFF(call.self)
           THEN /\ \A p \in ScopeNames :
                     ScopeNibble(call.self) = p[1] => call.ret = Some(p[2])
                /\ ScopeNibble(call.self) \in {0, 6, 7, 9, 10, 11, 12, 13, 15}
                       => call.ret = None
           ELSE call.ret = None

\* ff06:: is multicast and has no scope.
C15_Witness ==
    /\ call.op = "Ipv6Addr::multicast_scope"
    /\ Ipv6Addr_segments(call.self) = <<65286, 0, 0, 0, 0, 0, 0, 0>>
    /\ call.ret = None

\* C16: is_global holds iff multicast_scope is Global, or multicast_scope is
\* None and is_unicast_global holds; a multicast address is global exactly
\* with scope nibble 14 and never with an unassigned nibble.
C16_IsGlobalV6 ==
    call.op = "Ipv6Addr::is_global" =>
        LET scope == Ipv6Addr_multicast_scope(call.self) IN
        /\ call.ret = (\/ scope = Some("Global")
                       \/ scope = None /\ Ipv6Addr_is_unicast_global(call.self))
        /\ HighByteFF(call.self) => (call.ret <=> ScopeNibble(call.self) = 14)
        /\ (/\ HighByteFF(call.self)
            /\ ScopeNibble(call.self) \in {0, 6, 7, 9, 10, 11, 12, 13, 15})
               => call.ret = FALSE

\* ff0f::1 is multicast with an unassigned scope nibble and is not global.
C16_Witness ==
    /\ call.op = "Ipv6Addr::is_global"
    /\ Ipv6Addr_segments(call.self) = <<65295, 0, 0, 0, 0, 0, 0, 1>>
    /\ call.ret = FALSE

\* C17: to_ipv4 is Some iff segments 0..4 are zero and segment 5 is 0 or
\* 0xffff; the octets are then the high and low bytes of segments 6 and 7.
C17_ToIpv4 ==
    call.op = "Ipv6Addr::to_ipv4" =>
        LET s == Ipv6Addr_segments(call.self) IN
        IF (\A i \in 1..5 : s[i] = 0) /\ s[6] \in {0, 65535}
        THEN /\ call.ret.tag = "Some"
             /\ Ipv4Addr_octets(call.ret.val)
                    = <<s[7] \div 256, s[7] % 256, s[8] \div 256, s[8] % 256>>
        ELSE call.ret = None

\* ::ffff:c00a:2ff converts to 192.10.2.255.
C17_Witness ==
    /\ call.op = "Ipv6Addr::to_ipv4"
    /\ Ipv6Addr_segments(call.self) = <<0, 0, 0, 0, 0, 65535, 49162, 767>>
    /\ call.ret = Some(Ipv4Addr_new(192, 10, 2, 255))

\* C18: is_reserved holds iff the first octet is at least 240 and the address
\* is not 255.255.255.255; 240.0.0.0 and 255.255.255.254 are reserved,
\* 239.255.255.255 and 255.255.255.255 are not.
C18_IsReserved ==
    call.op = "Ipv4Addr::is_reserved" =>
        LET o == Ipv4Addr_octets(call.self) IN
        /\ call.ret = (o[1] >= 240 /\ o # <<255, 255, 255, 255>>)
        /\ o \in {<<240, 0, 0, 0>>, <<255, 255, 255, 254>>} => call.ret = TRUE
        /\ o \in {<<239, 255, 255, 255>>, <<255, 255, 255, 255>>} => call.ret = FALSE

C18_Witness ==
    /\ call.op = "Ipv4Addr::is_reserved"
    /\ Ipv4Addr_octets(call.self) = <<255, 255, 255, 255>>
    /\ call.ret = FALSE

\* C19: is_benchmarking holds iff the first octet is 198 and the second is 18
\* or 19; 198.17.255.255 and 198.20.0.0 are not benchmarking.
C19_IsBenchmarking ==
    call.op = "Ipv4Addr::is_benchmarking" =>
        LET o == Ipv4Addr_octets(call.self) IN
        /\ call.ret = (o[1] = 198 /\ o[2] \in {18, 19})
        /\ o \in {<<198, 17, 255, 255>>, <<198, 20, 0, 0>>} => call.ret = FALSE

C19_Witness ==
    /\ call.op = "Ipv4Addr::is_benchmarking"
    /\ Ipv4Addr_octets(call.self) = <<198, 19, 255, 255>>
    /\ call.ret = TRUE

\* C20: is_private holds iff the first octet is 10, or it is 172 and the
\* second is in 16..31, or it is 192 and the second is 168; 10.255.255.255 is
\* private, 11.0.0.0, 172.32.0.2 and 192.169.0.2 are not.
C20_IsPrivate ==
    call.op = "Ipv4Addr::is_private" =>
        LET o == Ipv4Addr_octets(call.self) IN
        /\ call.ret = (\/ o[1] = 10
                       \/ o[1] = 172 /\ 16 <= o[2] /\ o[2] <= 31
                       \/ o[1] = 192 /\ o[2] = 168)
        /\ o = <<10, 255, 255, 255>> => call.ret = TRUE
        /\ o \in {<<11, 0, 0, 0>>, <<172, 32, 0, 2>>, <<192, 169, 0, 2>>}
              => call.ret = FALSE

C20_Witness ==
    /\ call.op = "Ipv4Addr::is_private"
    /\ Ipv4Addr_octets(call.self) = <<172, 32, 0, 2>>
    /\ call.ret = FALSE

\* (at, len) names a range of zero segments inside the array, and the range
\* is empty exactly when the array has no zero segment.
ZeroSliceInRange(s, at, len) ==
    /\ 0 <= at
    /\ 0 <= len
    /\ at + len <= 8
    /\ \A i \in (at + 1)..(at + len) : s[i] = 0
    /\ (len = 0) <=> (\A i \in 1..8 : s[i] # 0)

\* C28: find_zero_slice returns (at, len) with 0 <= at, at + len <= 8, every
\* segment in [at, at+len) zero, and len = 0 iff no segment is zero, on the
\* arrays the renderer passes to it and on every other array alike; the
\* rendering of an IPv6 address contains "::" at most once and never ":::".
C28_ZeroSliceInRange ==
    /\ call.op = "find_zero_slice" =>
          ZeroSliceInRange(Ipv6Addr_segments(call.self), call.ret[1], call.ret[2])
    /\ call.op = "Ipv6Addr::fmt" =>
          LET s == Ipv6Addr_segments(call.self)
              r == find_zero_slice(s)
              t == call.ret
          IN  /\ ZeroSliceInRange(s, r[1], r[2])
              /\ Cardinality(DoubleColons(t)) <= 1
              /\ \A i \in 1..(Len(t) - 2) :
                    ~(t[i] = ":" /\ t[i + 1] = ":" /\ t[i + 2] = ":")

\* An array without a zero segment gives the empty range (0, 0).
C28_Witness ==
    /\ call.op = "find_zero_slice"
    /\ Ipv6Addr_segments(call.self) = <<1, 1, 1, 1, 1, 1, 1, 1>>
    /\ call.ret = <<0, 0>>

\* `text` ends with `tail`, a ':' standing before it.
EndsInTail(text, tail) ==
    /\ Len(text) > Len(tail)
    /\ SubSeq(text, Len(text) - Len(tail) + 1, Len(text)) = tail
    /\ text[Len(text) - Len(tail)] = ":"

\* C30: the rendering of an IPv6 address other than :: and ::1 has a
\* dotted-decimal tail iff to_ipv4 is Some, and the tail is then the rendering
\* of the IPv4 address to_ipv4 returns; :: and ::1 have to_ipv4 Some and are
\* rendered without a dotted tail.
C30_DottedTailIffToIpv4 ==
    call.op = "Ipv6Addr::fmt" =>
        LET s      == Ipv6Addr_segments(call.self)
            t      == call.ret
            v4     == Ipv6Addr_to_ipv4(call.self)
            dotted == \E i \in 1..Len(t) : t[i] = "."
        IN  IF s \in {<<0, 0, 0, 0, 0, 0, 0, 0>>, <<0, 0, 0, 0, 0, 0, 0, 1>>}
            THEN v4.tag = "Some" /\ ~dotted
            ELSE /\ dotted <=> (v4.tag = "Some")
                 /\ v4.tag = "Some" => EndsInTail(t, Ipv4Addr_fmt(v4.val))

\* ::c00a:2ff is rendered "::192.10.2.255", the text of 192.10.2.255.
C30_Witness ==
    /\ call.op = "Ipv6Addr::fmt"
    /\ Ipv6Addr_segments(call.self) = <<0, 0, 0, 0, 0, 0, 49162, 767>>
    /\ Ipv6Addr_to_ipv4(call.self) = Some(Ipv4Addr_new(192, 10, 2, 255))
    /\ call.ret = <<":", ":">> \o Ipv4Addr_fmt(Ipv4Addr_new(192, 10, 2, 255))

\* ------------------------------------- classification operations (SpecClass)

\* [u16; 8] arrays around fe80::/10: fe7f, fe80, fe81, febf, fec0 in the first
\* segment, low values in segments 1..3.
InputsV6Local ==
    {[fam |-> "V6", arr |-> <<a, b, c, d, 0, 0, 0, 0>>] :
        a \in {65151, 65152, 65153, 65215, 65216},
        b \in SegsLow, c \in SegsLow, d \in SegsLow}

\* [u16; 8] arrays the IPv6 predicates are called on.
InputsV6Class ==
    InputsV6Scoped \cup InputsV6Local
        \cup {[fam |-> "V6", arr |-> <<a, b, 0, 0, 0, 0, 0, h>>] :
                 a \in SegsLow \cup {8193}, b \in SegsLow \cup {3512}, h \in SegsLow}

V4Predicates ==
    {"Ipv4Addr::is_unspecified", "Ipv4Addr::is_loopback", "Ipv4Addr::is_private",
     "Ipv4Addr::is_link_local", "Ipv4Addr::is_broadcast",
     "Ipv4Addr::is_documentation", "Ipv4Addr::is_shared",
     "Ipv4Addr::is_ietf_protocol_assignment", "Ipv4Addr::is_benchmarking",
     "Ipv4Addr::is_reserved", "Ipv4Addr::is_multicast", "Ipv4Addr::is_global"}

V6Predicates ==
    {"Ipv6Addr::is_unspecified", "Ipv6Addr::is_loopback", "Ipv6Addr::is_global",
     "Ipv6Addr::is_unique_local", "Ipv6Addr::is_unicast_link_local_strict",
     "Ipv6Addr::is_unicast_link_local", "Ipv6Addr::is_unicast_site_local",
     "Ipv6Addr::is_documentation", "Ipv6Addr::is_unicast_global",
     "Ipv6Addr::is_multicast", "Ipv6Addr::multicast_scope"}

\* The method of Ipv4Addr that `name` names, applied to self.
Ipv4Addr_predicate(name, self) ==
    CASE name = "Ipv4Addr::is_unspecified" -> Ipv4Addr_is_unspecified(self)
      [] name = "Ipv4Addr::is_loopback" -> Ipv4Addr_is_loopback(self)
      [] name = "Ipv4Addr::is_private" -> Ipv4Addr_is_private(self)
      [] name = "Ipv4Addr::is_link_local" -> Ipv4Addr_is_link_local(self)
      [] name = "Ipv4Addr::is_broadcast" -> Ipv4Addr_is_broadcast(self)
      [] name = "Ipv4Addr::is_documentation" -> Ipv4Addr_is_documentation(self)
      [] name = "Ipv4Addr::is_shared" -> Ipv4Addr_is_shared(self)
      [] name = "Ipv4Addr::is_ietf_protocol_assignment"
            -> Ipv4Addr_is_ietf_protocol_assignment(self)
      [] name = "Ipv4Addr::is_benchmarking" -> Ipv4Addr_is_benchmarking(self)
      [] name = "Ipv4Addr::is_reserved" -> Ipv4Addr_is_reserved(self)
      [] name = "Ipv4Addr::is_multicast" -> Ipv4Addr_is_multicast(self)
      [] name = "Ipv4Addr::is_global" -> Ipv4Addr_is_global(self)

\* The method of Ipv6Addr that `name` names, applied to self.
Ipv6Addr_predicate(name, self) ==
    CASE name = "Ipv6Addr::is_unspecified" -> Ipv6Addr_is_unspecified(self)
      [] name = "Ipv6Addr::is_loopback" -> Ipv6Addr_is_loopback(self)
      [] name = "Ipv6Addr::is_global" -> Ipv6Addr_is_global(self)
      [] name = "Ipv6Addr::is_unique_local" -> Ipv6Addr_is_unique_local(self)
      [] name = "Ipv6Addr::is_unicast_link_local_strict"
            -> Ipv6Addr_is_unicast_link_local_strict(self)
      [] name = "Ipv6Addr::is_unicast_link_local"
            -> Ipv6Addr_is_unicast_link_local(self)
      [] name = "Ipv6Addr::is_unicast_site_local"
            -> Ipv6Addr_is_unicast_site_local(self)
      [] name = "Ipv6Addr::is_documentation" -> Ipv6Addr_is_documentation(self)
      [] name = "Ipv6Addr::is_unicast_global" -> Ipv6Addr_is_unicast_global(self)
      [] name = "Ipv6Addr::is_multicast" -> Ipv6Addr_is_multicast(self)
      [] name = "Ipv6Addr::multicast_scope" -> Ipv6Addr_multicast_scope(self)

InitClass ==
    /\ input \in InputsV4 \cup InputsV6Class
    /\ sock = SocketAddr_new(IpAddr_V4(Ipv4Addr_LOCALHOST), 0)
    /\ call = NoCall

\* x.is_...() for each classification method of Ipv4Addr
CallV4Predicate(name) ==
    /\ input.fam = "V4"
    /\ Called(name, InputV4, None, Ipv4Addr_predicate(name, InputV4))
    /\ UNCHANGED <<sock, input>>

\* x.is_...() and x.multicast_scope() for each classification method of Ipv6Addr
CallV6Predicate(name) ==
    /\ input.fam = "V6"
    /\ Called(name, InputV6, None, Ipv6Addr_predicate(name, InputV6))
    /\ UNCHANGED <<sock, input>>

CallV4ToIpv6Compatible ==
    /\ input.fam = "V4"
    /\ Called("Ipv4Addr::to_ipv6_compatible", InputV4, None,
              Ipv4Addr_to_ipv6_compatible(InputV4))
    /\ UNCHANGED <<sock, input>>

CallV4ToIpv6Mapped ==
    /\ input.fam = "V4"
    /\ Called("Ipv4Addr::to_ipv6_mapped", InputV4, None,
              Ipv4Addr_to_ipv6_mapped(InputV4))
    /\ UNCHANGED <<sock, input>>

\* x.to_ipv6_compatible().to_ipv4()
CallV4CompatibleToIpv4 ==
    /\ input.fam = "V4"
    /\ Called("to_ipv6_compatible().to_ipv4", InputV4,
              Ipv4Addr_to_ipv6_compatible(InputV4),
              Ipv6Addr_to_ipv4(Ipv4Addr_to_ipv6_compatible(InputV4)))
    /\ UNCHANGED <<sock, input>>

\* x.to_ipv6_mapped().to_ipv4()
CallV4MappedToIpv4 ==
    /\ input.fam = "V4"
    /\ Called("to_ipv6_mapped().to_ipv4", InputV4, Ipv4Addr_to_ipv6_mapped(InputV4),
              Ipv6Addr_to_ipv4(Ipv4Addr_to_ipv6_mapped(InputV4)))
    /\ UNCHANGED <<sock, input>>

NextClass ==
    \/ \E name \in V4Predicates : CallV4Predicate(name)
    \/ \E name \in V6Predicates : CallV6Predicate(name)
    \/ CallV4ToIpv6Compatible
    \/ CallV4ToIpv6Mapped
    \/ CallV4CompatibleToIpv4
    \/ CallV4MappedToIpv4

SpecClass == InitClass /\ [][NextClass]_vars

\* --------------------------------------------------- classification properties

\* C21: is_unicast_link_local_strict holds iff segment 0 is 0xfe80 and
\* segments 1, 2, 3 are zero; is_unicast_link_local holds iff the top ten bits
\* of segment 0 are those of 0xfe80 (fe80..febf); strict implies loose;
\* fe80:0:0:1:: and fe81:: are loose but not strict.
C21_LinkLocal ==
    /\ call.op = "Ipv6Addr::is_unicast_link_local_strict" =>
          LET s == Ipv6Addr_segments(call.self) IN
          /\ call.ret = (s[1] = 65152 /\ s[2] = 0 /\ s[3] = 0 /\ s[4] = 0)
          /\ call.ret => Ipv6Addr_is_unicast_link_local(call.self)
          /\ s \in {<<65152, 0, 0, 1, 0, 0, 0, 0>>, <<65153, 0, 0, 0, 0, 0, 0, 0>>}
                => call.ret = FALSE
    /\ call.op = "Ipv6Addr::is_unicast_link_local" =>
          LET s == Ipv6Addr_segments(call.self) IN
          /\ call.ret = (s[1] >= 65152 /\ s[1] <= 65215)
          /\ Ipv6Addr_is_unicast_link_local_strict(call.self) => call.ret
          /\ s \in {<<65152, 0, 0, 1, 0, 0, 0, 0>>, <<65153, 0, 0, 0, 0, 0, 0, 0>>}
                => call.ret = TRUE

\* fe80:0:0:1:: is not strictly link-local.
C21_Witness ==
    /\ call.op = "Ipv6Addr::is_unicast_link_local_strict"
    /\ Ipv6Addr_segments(call.self) = <<65152, 0, 0, 1, 0, 0, 0, 0>>
    /\ call.ret = FALSE
    /\ Ipv6Addr_is_unicast_link_local(call.self)

\* C22: is_unicast_global holds iff the address is not multicast (ff00::/8),
\* not ::1, not link-local (fe80::/10), not unique-local (fc00::/7), not ::
\* and not documentation (2001:db8::/32); every site-local address
\* (fec0::/10) is unicast-global.
C22_UnicastGlobal ==
    call.op = "Ipv6Addr::is_unicast_global" =>
        LET s == Ipv6Addr_segments(call.self) IN
        /\ call.ret = ~(\/ s[1] \div 256 = 255
                        \/ s = <<0, 0, 0, 0, 0, 0, 0, 1>>
                        \/ s[1] \in 65152..65215
                        \/ s[1] \in 64512..65023
                        \/ s = <<0, 0, 0, 0, 0, 0, 0, 0>>
                        \/ s[1] = 8193 /\ s[2] = 3512)
        /\ call.ret = (/\ ~Ipv6Addr_is_multicast(call.self)
                       /\ ~Ipv6Addr_is_loopback(call.self)
                       /\ ~Ipv6Addr_is_unicast_link_local(call.self)
                       /\ ~Ipv6Addr_is_unique_local(call.self)
                       /\ ~Ipv6Addr_is_unspecified(call.self)
                       /\ ~Ipv6Addr_is_documentation(call.self))
        /\ s[1] \in 65216..65279 =>
              Ipv6Addr_is_unicast_site_local(call.self) /\ call.ret = TRUE

\* fec0:: is site-local and unicast-global.
C22_Witness ==
    /\ call.op = "Ipv6Addr::is_unicast_global"
    /\ Ipv6Addr_segments(call.self) = <<65216, 0, 0, 0, 0, 0, 0, 0>>
    /\ call.ret = TRUE

\* The rule table of the IPv4 predicates as a function of the [u8; 4] array
\* alone: no address value, backend constant or backend equality enters it.
TableV4(name, o) ==
    CASE name = "Ipv4Addr::is_unspecified" -> o = <<0, 0, 0, 0>>
      [] name = "Ipv4Addr::is_loopback" -> o[1] = 127
      [] name = "Ipv4Addr::is_private" -> TablePrivate(o)
      [] name = "Ipv4Addr::is_link_local" -> o[1] = 169 /\ o[2] = 254
      [] name = "Ipv4Addr::is_broadcast" -> o = <<255, 255, 255, 255>>
      [] name = "Ipv4Addr::is_documentation" -> TableDocumentation(o)
      [] name = "Ipv4Addr::is_shared" -> o[1] = 100 /\ o[2] \in 64..127
      [] name = "Ipv4Addr::is_ietf_protocol_assignment"
            -> <<o[1], o[2], o[3]>> = <<192, 0, 0>>
      [] name = "Ipv4Addr::is_benchmarking" -> o[1] = 198 /\ o[2] \in {18, 19}
      [] name = "Ipv4Addr::is_reserved"
            -> o[1] \in 240..255 /\ o # <<255, 255, 255, 255>>
      [] name = "Ipv4Addr::is_multicast" -> o[1] \in 224..239
      [] name = "Ipv4Addr::is_global"
            -> \/ o \in {<<192, 0, 0, 9>>, <<192, 0, 0, 10>>}
               \/ ~TableNotGlobal(o) /\ o[1] # 0

\* The scope of the [u16; 8] array s by the table of assigned nibbles.
TableScope(s) ==
    IF s[1] \div 256 = 255 /\ \E p \in ScopeNames : p[1] = s[1] % 16
    THEN Some((CHOOSE p \in ScopeNames : p[1] = s[1] % 16)[2])
    ELSE None

\* fe80::/10, fc00::/7, ff00::/8, 2001:db8::/32, :: and ::1 by the array.
TableNotUnicastGlobal(s) ==
    \/ s[1] \in 65280..65535
    \/ s = <<0, 0, 0, 0, 0, 0, 0, 1>>
    \/ s[1] \in 65152..65215
    \/ s[1] \in 64512..65023
    \/ s = <<0, 0, 0, 0, 0, 0, 0, 0>>
    \/ s[1] = 8193 /\ s[2] = 3512

\* The rule table of the IPv6 predicates as a function of the [u16; 8] array
\* alone.
TableV6(name, s) ==
    CASE name = "Ipv6Addr::is_unspecified" -> s = <<0, 0, 0, 0, 0, 0, 0, 0>>
      [] name = "Ipv6Addr::is_loopback" -> s = <<0, 0, 0, 0, 0, 0, 0, 1>>
      [] name = "Ipv6Addr::is_global"
            -> \/ TableScope(s) = Some("Global")
               \/ TableScope(s) = None /\ ~TableNotUnicastGlobal(s)
      [] name = "Ipv6Addr::is_unique_local" -> s[1] \in 64512..65023
      [] name = "Ipv6Addr::is_unicast_link_local_strict"
            -> <<s[1], s[2], s[3], s[4]>> = <<65152, 0, 0, 0>>
      [] name = "Ipv6Addr::is_unicast_link_local" -> s[1] \in 65152..65215
      [] name = "Ipv6Addr::is_unicast_site_local" -> s[1] \in 65216..65279
      [] name = "Ipv6Addr::is_documentation" -> s[1] = 8193 /\ s[2] = 3512
      [] name = "Ipv6Addr::is_unicast_global" -> ~TableNotUnicastGlobal(s)
      [] name = "Ipv6Addr::is_multicast" -> s[1] \in 65280..65535
      [] name = "Ipv6Addr::multicast_scope" -> TableScope(s)

\* C25: every classification predicate of Ipv4Addr returns what a fixed
\* function of the octets() array returns, so two addresses with equal
\* octets() get the same result; this includes is_unspecified and
\* is_broadcast, which the code computes with the backend's equality against
\* its UNSPECIFIED and BROADCAST constants; likewise every predicate of
\* Ipv6Addr and the segments() array.
C25_PredicatesOfOctets ==
    /\ call.op \in V4Predicates =>
          call.ret = TableV4(call.op, Ipv4Addr_octets(call.self))
    /\ call.op \in V6Predicates =>
          call.ret = TableV6(call.op, Ipv6Addr_segments(call.self))

\* 239.255.255.255, the last multicast address, is classified by its octets.
C25_Witness ==
    /\ call.op = "Ipv4Addr::is_multicast"
    /\ Ipv4Addr_octets(call.self) = <<239, 255, 255, 255>>
    /\ call.ret = TRUE
    /\ call.ret = TableV4(call.op, <<239, 255, 255, 255>>)

\* C27: to_ipv6_mapped(x).to_ipv4() and to_ipv6_compatible(x).to_ipv4() are
\* Some(x); the mapped address has segments [0,0,0,0,0,0xffff,a*256+b,c*256+d]
\* and the compatible one [0,0,0,0,0,0,a*256+b,c*256+d].
C27_MappedCompatibleRoundTrip ==
    LET o == Ipv4Addr_octets(call.self) IN
    /\ call.op = "Ipv4Addr::to_ipv6_mapped" =>
          Ipv6Addr_segments(call.ret)
              = <<0, 0, 0, 0, 0, 65535, o[1] * 256 + o[2], o[3] * 256 + o[4]>>
    /\ call.op = "Ipv4Addr::to_ipv6_compatible" =>
          Ipv6Addr_segments(call.ret)
              = <<0, 0, 0, 0, 0, 0, o[1] * 256 + o[2], o[3] * 256 + o[4]>>
    /\ call.op \in {"to_ipv6_mapped().to_ipv4", "to_ipv6_compatible().to_ipv4"} =>
          /\ call.ret.tag = "Some"
          /\ Ipv4Addr_eq(call.ret.val, call.self)
          /\ Ipv4Addr_octets(call.ret.val) = input.arr

\* 192.168.2.255 goes to ::c0a8:2ff and back.
C27_Witness ==
    /\ call.op = "to_ipv6_compatible().to_ipv4"
    /\ Ipv4Addr_octets(call.self) = <<192, 168, 2, 255>>
    /\ Ipv6Addr_segments(call.arg) = <<0, 0, 0, 0, 0, 0, 49320, 767>>
    /\ call.ret = Some(call.self)

\* ------------------------------------------- ordering operations (SpecOrd)

\* Pairs of [u8; 4] arrays and pairs of [u16; 8] arrays to compare.
PairArraysV4 ==
    {<<a, b, c, d>> : a \in OctetsLow, b \in {0, 255}, c \in {0, 255}, d \in OctetsLow}

PairArraysV6 ==
    {<<a, 0, 0, d, 0, 0, 0, h>> :
        a \in SegsLow \cup {65535}, d \in {0, 65535}, h \in SegsLow \cup {65535}}

InputPairs ==
    {[fam |-> "V4", arr |-> x, other |-> y] : x \in PairArraysV4, y \in PairArraysV4}
        \cup {[fam |-> "V6", arr |-> x, other |-> y] :
                 x \in PairArraysV6, y \in PairArraysV6}

OtherV4 == Ipv4Addr_from_octets(input.other)

OtherV6 == Ipv6Addr_from_segments(input.other)

InitOrd ==
    /\ input \in InputPairs
    /\ sock = SocketAddr_new(IpAddr_V4(Ipv4Addr_LOCALHOST), 0)
    /\ call = NoCall

\* x.cmp(&y), x.partial_cmp(&y) and x == y on Ipv4Addr
CallV4Cmp ==
    /\ input.fam = "V4"
    /\ Called("Ipv4Addr::cmp", InputV4, OtherV4, Ipv4Addr_cmp(InputV4, OtherV4))
    /\ UNCHANGED <<sock, input>>

CallV4PartialCmp ==
    /\ input.fam = "V4"
    /\ Called("Ipv4Addr::partial_cmp", InputV4, OtherV4,
              Ipv4Addr_partial_cmp(InputV4, OtherV4))
    /\ UNCHANGED <<sock, input>>

CallV4Eq ==
    /\ input.fam = "V4"
    /\ Called("Ipv4Addr::eq", InputV4, OtherV4, Ipv4Addr_eq(InputV4, OtherV4))
    /\ UNCHANGED <<sock, input>>

\* x.cmp(&y), x.partial_cmp(&y) and x == y on Ipv6Addr
CallV6Cmp ==
    /\ input.fam = "V6"
    /\ Called("Ipv6Addr::cmp", InputV6, OtherV6, Ipv6Addr_cmp(InputV6, OtherV6))
    /\ UNCHANGED <<sock, input>>

CallV6PartialCmp ==
    /\ input.fam = "V6"
    /\ Called("Ipv6Addr::partial_cmp", InputV6, OtherV6,
              Ipv6Addr_partial_cmp(InputV6, OtherV6))
    /\ UNCHANGED <<sock, input>>

CallV6Eq ==
    /\ input.fam = "V6"
    /\ Called("Ipv6Addr::eq", InputV6, OtherV6, Ipv6Addr_eq(InputV6, OtherV6))
    /\ UNCHANGED <<sock, input>>

NextOrd ==
    \/ CallV4Cmp
    \/ CallV4PartialCmp
    \/ CallV4Eq
    \/ CallV6Cmp
    \/ CallV6PartialCmp
    \/ CallV6Eq

SpecOrd == InitOrd /\ [][NextOrd]_vars

\* ------------------------------------------------------ ordering properties

\* m < n for two integers written as digits of equal length, the most
\* significant first.
WideLess(m, n) ==
    \E i \in 1..Len(m) : m[i] < n[i] /\ \A j \in 1..(i - 1) : m[j] = n[j]

\* The ordering of two arrays by their first differing element.
LexOrdering(s, t) ==
    IF s = t THEN "Equal"
    ELSE LET i == CHOOSE k \in 1..Len(s) : s[k] # t[k] /\ \A j \in 1..(k - 1) : s[j] = t[j]
         IN  IF s[i] < t[i] THEN "Less" ELSE "Greater"

\* C29: the IPv4 order is lexicographic over octets() and the IPv6 order over
\* segments(); x < y iff u32::from(x) < u32::from(y), respectively
\* u128::from(x) < u128::from(y); cmp is Equal iff x == y.
C29_OrderAgreesWithIntegers ==
    /\ call.op = "Ipv4Addr::cmp" =>
          /\ call.ret = LexOrdering(Ipv4Addr_octets(call.self), Ipv4Addr_octets(call.arg))
          /\ (call.ret = "Less")
                <=> WideLess(u32_from_Ipv4Addr(call.self), u32_from_Ipv4Addr(call.arg))
          /\ (call.ret = "Equal") <=> Ipv4Addr_eq(call.self, call.arg)
    /\ call.op = "Ipv4Addr::partial_cmp" =>
          (call.ret = Some("Less"))
              <=> WideLess(u32_from_Ipv4Addr(call.self), u32_from_Ipv4Addr(call.arg))
    /\ call.op = "Ipv4Addr::eq" =>
          call.ret = (Ipv4Addr_cmp(call.self, call.arg) = "Equal")
    /\ call.op = "Ipv6Addr::cmp" =>
          /\ call.ret
                = LexOrdering(Ipv6Addr_segments(call.self), Ipv6Addr_segments(call.arg))
          /\ (call.ret = "Less")
                <=> WideLess(u128_from_Ipv6Addr(call.self), u128_from_Ipv6Addr(call.arg))
          /\ (call.ret = "Equal") <=> Ipv6Addr_eq(call.self, call.arg)
    /\ call.op = "Ipv6Addr::partial_cmp" =>
          (call.ret = Some("Less"))
              <=> WideLess(u128_from_Ipv6Addr(call.self), u128_from_Ipv6Addr(call.arg))
    /\ call.op = "Ipv6Addr::eq" =>
          call.ret = (Ipv6Addr_cmp(call.self, call.arg) = "Equal")

\* 0:0:0:ffff::1 is less than 1::, as 0x0000_0000_0000_ffff_..01 < 0x0001_00...
C29_Witness ==
    /\ call.op = "Ipv6Addr::cmp"
    /\ Ipv6Addr_segments(call.self) = <<0, 0, 0, 65535, 0, 0, 0, 1>>
    /\ Ipv6Addr_segments(call.arg) = <<1, 0, 0, 0, 0, 0, 0, 0>>
    /\ call.ret = "Less"

\* ------------------------------------------------ socket operations (Spec)

Init ==
    /\ sock \in SocketAddrs
    /\ input = [fam |-> "V4", arr |-> <<127, 0, 0, 1>>]
    /\ call = NoCall

SetIp(new_ip) ==
    /\ sock' = SocketAddr_set_ip(sock, new_ip)
    /\ Called("SocketAddr::set_ip", sock, new_ip, None)
    /\ UNCHANGED input

SetPort(new_port) ==
    /\ sock' = SocketAddr_set_port(sock, new_port)
    /\ Called("SocketAddr::set_port", sock, new_port, None)
    /\ UNCHANGED input

\* SocketAddrV6::set_flowinfo on the address a V6 socket address holds
SetFlowinfo(new_flowinfo) ==
    /\ sock.tag = "V6"
    /\ sock' = SocketAddr_V6(SocketAddrV6_set_flowinfo(sock.a, new_flowinfo))
    /\ Called("SocketAddrV6::set_flowinfo", sock, new_flowinfo, None)
    /\ UNCHANGED input

\* SocketAddrV6::set_scope_id on the address a V6 socket address holds
SetScopeId(new_scope_id) ==
    /\ sock.tag = "V6"
    /\ sock' = SocketAddr_V6(SocketAddrV6_set_scope_id(sock.a, new_scope_id))
    /\ Called("SocketAddrV6::set_scope_id", sock, new_scope_id, None)
    /\ UNCHANGED input

\* sock.to_string()
SockFmt ==
    /\ Called("SocketAddr::fmt", sock, None, SocketAddr_fmt(sock))
    /\ UNCHANGED <<sock, input>>

\* to_string() of the SocketAddrV4 or SocketAddrV6 the socket address holds
SockVariantFmt ==
    /\ IF sock.tag = "V4"
       THEN Called("SocketAddrV4::fmt", sock.a, None, SocketAddrV4_fmt(sock.a))
       ELSE Called("SocketAddrV6::fmt", sock.a, None, SocketAddrV6_fmt(sock.a))
    /\ UNCHANGED <<sock, input>>

\* sock == other
SockEq(other) ==
    /\ Called("SocketAddr::eq", sock, other, SocketAddr_eq(sock, other))
    /\ UNCHANGED <<sock, input>>

\* sock.ip() == other and sock.ip().partial_cmp(&other), other an IpAddr
IpEq(other) ==
    /\ Called("IpAddr::eq", SocketAddr_ip(sock), other,
              IpAddr_eq(SocketAddr_ip(sock), other))
    /\ UNCHANGED <<sock, input>>

IpCmp(other) ==
    /\ Called("IpAddr::partial_cmp", SocketAddr_ip(sock), other,
              IpAddr_partial_cmp(SocketAddr_ip(sock), other))
    /\ UNCHANGED <<sock, input>>

\* sock.ip() == other and sock.ip().partial_cmp(&other), other an Ipv4Addr
IpEqV4(other) ==
    /\ Called("IpAddr::eq<Ipv4Addr>", SocketAddr_ip(sock), other,
              IpAddr_eq_Ipv4Addr(SocketAddr_ip(sock), other))
    /\ UNCHANGED <<sock, input>>

IpCmpV4(other) ==
    /\ Called("IpAddr::partial_cmp<Ipv4Addr>", SocketAddr_ip(sock), other,
              IpAddr_partial_cmp_Ipv4Addr(SocketAddr_ip(sock), other))
    /\ UNCHANGED <<sock, input>>

\* a == sock.ip() and a.partial_cmp(&sock.ip()), a an Ipv4Addr
V4EqIp(a) ==
    /\ Called("Ipv4Addr::eq<IpAddr>", a, SocketAddr_ip(sock),
              Ipv4Addr_eq_IpAddr(a, SocketAddr_ip(sock)))
    /\ UNCHANGED <<sock, input>>

V4CmpIp(a) ==
    /\ Called("Ipv4Addr::partial_cmp<IpAddr>", a, SocketAddr_ip(sock),
              Ipv4Addr_partial_cmp_IpAddr(a, SocketAddr_ip(sock)))
    /\ UNCHANGED <<sock, input>>

\* sock.ip() == other and sock.ip().partial_cmp(&other), other an Ipv6Addr
IpEqV6(other) ==
    /\ Called("IpAddr::eq<Ipv6Addr>", SocketAddr_ip(sock), other,
              IpAddr_eq_Ipv6Addr(SocketAddr_ip(sock), other))
    /\ UNCHANGED <<sock, input>>

IpCmpV6(other) ==
    /\ Called("IpAddr::partial_cmp<Ipv6Addr>", SocketAddr_ip(sock), other,
              IpAddr_partial_cmp_Ipv6Addr(SocketAddr_ip(sock), other))
    /\ UNCHANGED <<sock, input>>

\* sock.to_socket_addrs()
ToSocketAddrsSock ==
    /\ Called("SocketAddr::to_socket_addrs", sock, None,
              SocketAddr_to_socket_addrs(sock))
    /\ UNCHANGED <<sock, input>>

\* to_socket_addrs() of the SocketAddrV4 or SocketAddrV6 the socket address holds
ToSocketAddrsVariant ==
    /\ IF sock.tag = "V4"
       THEN Called("SocketAddrV4::to_socket_addrs", sock.a, None,
                   SocketAddrV4_to_socket_addrs(sock.a))
       ELSE Called("SocketAddrV6::to_socket_addrs", sock.a, None,
                   SocketAddrV6_to_socket_addrs(sock.a))
    /\ UNCHANGED <<sock, input>>

\* (ip, sock.port()).to_socket_addrs(), ip an IpAddr
ToSocketAddrsIpPort(ip) ==
    /\ Called("(IpAddr, u16)::to_socket_addrs", <<ip, SocketAddr_port(sock)>>, None,
              IpAddrPort_to_socket_addrs(ip, SocketAddr_port(sock)))
    /\ UNCHANGED <<sock, input>>

\* (ip, sock.port()).to_socket_addrs(), ip an Ipv4Addr
ToSocketAddrsV4Port(ip) ==
    /\ Called("(Ipv4Addr, u16)::to_socket_addrs", <<ip, SocketAddr_port(sock)>>, None,
              Ipv4AddrPort_to_socket_addrs(ip, SocketAddr_port(sock)))
    /\ UNCHANGED <<sock, input>>

\* (ip, sock.port()).to_socket_addrs(), ip an Ipv6Addr
ToSocketAddrsV6Port(ip) ==
    /\ Called("(Ipv6Addr, u16)::to_socket_addrs", <<ip, SocketAddr_port(sock)>>, None,
              Ipv6AddrPort_to_socket_addrs(ip, SocketAddr_port(sock)))
    /\ UNCHANGED <<sock, input>>

Next ==
    \/ \E new_ip \in IpAddrs : SetIp(new_ip)
    \/ \E new_port \in Ports : SetPort(new_port)
    \/ \E f \in Flows : SetFlowinfo(f)
    \/ \E s \in Flows : SetScopeId(s)
    \/ SockFmt
    \/ SockVariantFmt
    \/ \E other \in SocketAddrs : SockEq(other)
    \/ \E other \in IpAddrs : IpEq(other)
    \/ \E other \in IpAddrs : IpCmp(other)
    \/ \E other \in SockV4Ips : IpEqV4(other)
    \/ \E other \in SockV4Ips : IpCmpV4(other)
    \/ \E a \in SockV4Ips : V4EqIp(a)
    \/ \E a \in SockV4Ips : V4CmpIp(a)
    \/ \E other \in SockV6Ips : IpEqV6(other)
    \/ \E other \in SockV6Ips : IpCmpV6(other)
    \/ ToSocketAddrsSock
    \/ ToSocketAddrsVariant
    \/ \E ip \in IpAddrs : ToSocketAddrsIpPort(ip)
    \/ \E ip \in SockV4Ips : ToSocketAddrsV4Port(ip)
    \/ \E ip \in SockV6Ips : ToSocketAddrsV6Port(ip)

Spec == Init /\ [][Next]_vars

\* ------------------------------------------------------- socket properties

\* C1: a V4 socket address renders as "<ip>:<port>" and a V6 socket address
\* as the bracketed "[<ip>]:<port>", the text SocketAddrV6's Display gives.
C1_SocketAddrDisplay ==
    call.op = "SocketAddr::fmt" =>
        IF call.self.tag = "V4"
        THEN call.ret = Ipv4Addr_fmt(SocketAddrV4_ip(call.self.a)) \o <<":">>
                            \o FmtDec(SocketAddr_port(call.self))
        ELSE /\ call.ret = <<"[">> \o Ipv6Addr_fmt(SocketAddrV6_ip(call.self.a))
                               \o <<"]", ":">> \o FmtDec(SocketAddr_port(call.self))
             /\ call.ret = SocketAddrV6_fmt(call.self.a)

\* C2: set_ip with an address of the other family leaves
\* SocketAddr::new(new_ip, old port): the variant is new_ip's, ip() is new_ip
\* and port() is the port held before the call.
C2_SetIpAcrossFamilies ==
    (call.op = "SocketAddr::set_ip" /\ call.self.tag # call.arg.tag) =>
        /\ sock = SocketAddr_new(call.arg, SocketAddr_port(call.self))
        /\ sock.tag = call.arg.tag
        /\ SocketAddr_ip(sock) = call.arg
        /\ SocketAddr_port(sock) = SocketAddr_port(call.self)

\* [::1]:8080 with flowinfo 1 given the ip 10.0.0.1 becomes 10.0.0.1:8080.
C2_Witness ==
    /\ call.op = "SocketAddr::set_ip"
    /\ call.self = SocketAddr_V6(SocketAddrV6_new(Ipv6Addr_LOCALHOST, 8080, 1, 0))
    /\ call.arg = IpAddr_V4(Ipv4Addr_new(10, 0, 0, 1))
    /\ sock = SocketAddr_V4(SocketAddrV4_new(Ipv4Addr_new(10, 0, 0, 1), 8080))

\* C8: IpAddr::V4(a) < IpAddr::V6(b) for all a and b, and the mixed
\* comparisons agree: Ipv4Addr with IpAddr::V6 is Less, IpAddr::V6 with
\* Ipv4Addr is Greater, IpAddr::V4 with Ipv6Addr is Less.
C8_V4BeforeV6 ==
    /\ (call.op = "IpAddr::partial_cmp" /\ call.self.tag = "V4" /\ call.arg.tag = "V6")
          => call.ret = Some("Less")
    /\ (call.op = "IpAddr::partial_cmp" /\ call.self.tag = "V6" /\ call.arg.tag = "V4")
          => call.ret = Some("Greater")
    /\ (call.op = "Ipv4Addr::partial_cmp<IpAddr>" /\ call.arg.tag = "V6")
          => call.ret = Some("Less")
    /\ (call.op = "IpAddr::partial_cmp<Ipv4Addr>" /\ call.self.tag = "V6")
          => call.ret = Some("Greater")
    /\ (call.op = "IpAddr::partial_cmp<Ipv6Addr>" /\ call.self.tag = "V4")
          => call.ret = Some("Less")

\* 255.255.255.255 is less than :: although its bits are the greater.
C8_Witness ==
    /\ call.op = "IpAddr::partial_cmp"
    /\ call.self = IpAddr_V4(Ipv4Addr_BROADCAST)
    /\ call.arg = IpAddr_V6(Ipv6Addr_UNSPECIFIED)
    /\ call.ret = Some("Less")

\* C9: a V4 value never equals a V6 value, as IpAddr, against an Ipv4Addr or
\* an Ipv6Addr, and as SocketAddr; IpAddr::V4(a) == a' iff a == a'.
C9_NeverEqualAcrossFamilies ==
    /\ (call.op = "IpAddr::eq" /\ call.self.tag # call.arg.tag) => call.ret = FALSE
    /\ (call.op = "IpAddr::eq<Ipv4Addr>" /\ call.self.tag = "V6") => call.ret = FALSE
    /\ (call.op = "IpAddr::eq<Ipv4Addr>" /\ call.self.tag = "V4") =>
          call.ret = (Ipv4Addr_octets(call.self.ip) = Ipv4Addr_octets(call.arg))
    /\ (call.op = "Ipv4Addr::eq<IpAddr>" /\ call.arg.tag = "V6") => call.ret = FALSE
    /\ (call.op = "IpAddr::eq<Ipv6Addr>" /\ call.self.tag = "V4") => call.ret = FALSE
    /\ (call.op = "SocketAddr::eq" /\ call.self.tag # call.arg.tag) => call.ret = FALSE

\* 127.0.0.1:8080 and [::1]:8080 are compared and differ.
C9_Witness ==
    /\ call.op = "SocketAddr::eq"
    /\ call.self = SocketAddr_new(IpAddr_V4(Ipv4Addr_LOCALHOST), 8080)
    /\ call.arg = SocketAddr_new(IpAddr_V6(Ipv6Addr_LOCALHOST), 8080)
    /\ call.ret = FALSE

\* flowinfo and scope_id of a socket address, None for the V4 variant.
FlowScope(sa) ==
    IF sa.tag = "V6"
    THEN Some(<<SocketAddrV6_flowinfo(sa.a), SocketAddrV6_scope_id(sa.a)>>)
    ELSE None

\* C23: each setter replaces its own field and leaves the others: set_port
\* keeps the variant, ip, flowinfo and scope_id; set_ip within the family keeps
\* port, flowinfo and scope_id; set_flowinfo changes flowinfo only and
\* set_scope_id scope_id only; every drawn port (up to 65535) and every drawn
\* flowinfo / scope_id (up to 0x7fffffff) is stored as given.
C23_SettersFrame ==
    /\ call.op = "SocketAddr::set_port" =>
          /\ sock.tag = call.self.tag
          /\ SocketAddr_port(sock) = call.arg
          /\ SocketAddr_ip(sock) = SocketAddr_ip(call.self)
          /\ FlowScope(sock) = FlowScope(call.self)
    /\ (call.op = "SocketAddr::set_ip" /\ call.self.tag = call.arg.tag) =>
          /\ sock.tag = call.self.tag
          /\ SocketAddr_ip(sock) = call.arg
          /\ SocketAddr_port(sock) = SocketAddr_port(call.self)
          /\ FlowScope(sock) = FlowScope(call.self)
    /\ call.op = "SocketAddrV6::set_flowinfo" =>
          /\ sock.tag = "V6"
          /\ SocketAddrV6_flowinfo(sock.a) = call.arg
          /\ SocketAddrV6_scope_id(sock.a) = SocketAddrV6_scope_id(call.self.a)
          /\ SocketAddr_ip(sock) = SocketAddr_ip(call.self)
          /\ SocketAddr_port(sock) = SocketAddr_port(call.self)
    /\ call.op = "SocketAddrV6::set_scope_id" =>
          /\ sock.tag = "V6"
          /\ SocketAddrV6_scope_id(sock.a) = call.arg
          /\ SocketAddrV6_flowinfo(sock.a) = SocketAddrV6_flowinfo(call.self.a)
          /\ SocketAddr_ip(sock) = SocketAddr_ip(call.self)
          /\ SocketAddr_port(sock) = SocketAddr_port(call.self)

\* set_flowinfo(0x7fffffff) on [::1]:65535 with scope_id 1 changes flowinfo only.
C23_Witness ==
    /\ call.op = "SocketAddrV6::set_flowinfo"
    /\ call.self = SocketAddr_V6(SocketAddrV6_new(Ipv6Addr_LOCALHOST, 65535, 0, 1))
    /\ call.arg = 2147483647
    /\ sock = SocketAddr_V6(SocketAddrV6_new(Ipv6Addr_LOCALHOST, 65535, 2147483647, 1))

\* C24: to_socket_addrs returns Ok for every input (ToSocketAddrError has no
\* value) and yields exactly one SocketAddr: the SocketAddr itself, the
\* SocketAddrV4 / SocketAddrV6 wrapped in its variant, or the address built
\* from (ip, port), with flowinfo 0 and scope_id 0 for an IPv6 address.
C24_ToSocketAddrs ==
    LET one == call.ret.tag = "Ok" /\ Len(call.ret.val) = 1
        sa  == call.ret.val[1]
    IN  /\ ToSocketAddrError = {}
        /\ call.op = "SocketAddr::to_socket_addrs" => one /\ sa = call.self
        /\ call.op = "SocketAddrV4::to_socket_addrs" =>
              one /\ sa.tag = "V4" /\ sa.a = call.self
        /\ call.op = "SocketAddrV6::to_socket_addrs" =>
              one /\ sa.tag = "V6" /\ sa.a = call.self
        /\ call.op = "(IpAddr, u16)::to_socket_addrs" =>
              /\ one
              /\ sa.tag = call.self[1].tag
              /\ SocketAddr_ip(sa) = call.self[1]
              /\ SocketAddr_port(sa) = call.self[2]
              /\ sa.tag = "V6" => FlowScope(sa) = Some(<<0, 0>>)
        /\ call.op = "(Ipv4Addr, u16)::to_socket_addrs" =>
              /\ one
              /\ sa.tag = "V4"
              /\ SocketAddr_ip(sa) = IpAddr_V4(call.self[1])
              /\ SocketAddr_port(sa) = call.self[2]
        /\ call.op = "(Ipv6Addr, u16)::to_socket_addrs" =>
              /\ one
              /\ sa.tag = "V6"
              /\ SocketAddr_ip(sa) = IpAddr_V6(call.self[1])
              /\ SocketAddr_port(sa) = call.self[2]
              /\ FlowScope(sa) = Some(<<0, 0>>)

\* A SocketAddrV6 with flowinfo 1 and scope_id 1 is yielded as it is.
C24_Witness ==
    /\ call.op = "SocketAddrV6::to_socket_addrs"
    /\ call.self = SocketAddrV6_new(Ipv6Addr_LOCALHOST, 8080, 1, 1)
    /\ call.ret = Ok(<<SocketAddr_V6(SocketAddrV6_new(Ipv6Addr_LOCALHOST, 8080, 1, 1))>>)

\* C26: a V6 socket address left by set_ip on a V4 socket address, or built by
\* SocketAddr::new, has flowinfo 0 and scope_id 0; set_ip with a V6 ip on a V6
\* socket address keeps flowinfo and scope_id; setting a V6 socket address to a
\* V4 ip and back to its own ip leaves flowinfo 0 and scope_id 0.
C26_FlowinfoResetAcrossFamilies ==
    /\ (call.op = "SocketAddr::set_ip" /\ call.self.tag = "V4" /\ call.arg.tag = "V6") =>
          /\ sock.tag = "V6"
          /\ FlowScope(sock) = Some(<<0, 0>>)
    /\ (call.op = "SocketAddr::set_ip" /\ call.self.tag = "V6" /\ call.arg.tag = "V6") =>
          FlowScope(sock) = FlowScope(call.self)
    /\ \A ip \in SockV6Ips : \A port \in Ports :
          FlowScope(SocketAddr_new(IpAddr_V6(ip), port)) = Some(<<0, 0>>)
    /\ sock.tag = "V6" =>
          \A v4 \in SockV4Ips :
              LET there == SocketAddr_set_ip(sock, IpAddr_V4(v4))
                  back  == SocketAddr_set_ip(there, SocketAddr_ip(sock))
              IN  /\ there.tag = "V4"
                  /\ back.tag = "V6"
                  /\ SocketAddr_ip(back) = SocketAddr_ip(sock)
                  /\ FlowScope(back) = Some(<<0, 0>>)
                  /\ FlowScope(sock) # Some(<<0, 0>>) => back # sock

\* 10.0.0.1:8080 given the ip ::1 becomes [::1]:8080 with flowinfo 0, scope_id 0.
C26_Witness ==
    /\ call.op = "SocketAddr::set_ip"
    /\ call.self = SocketAddr_V4(SocketAddrV4_new(Ipv4Addr_new(10, 0, 0, 1), 8080))
    /\ call.arg = IpAddr_V6(Ipv6Addr_LOCALHOST)
    /\ sock = SocketAddr_V6(SocketAddrV6_new(Ipv6Addr_LOCALHOST, 8080, 0, 0))

====
